---- MODULE Spec2Model ----
(***************************************************************************)
(* Quota-and-entitlement core of finalpixel: lib/billing/quota.js          *)
(* (checkAndConsumeQuota and its helpers), the Stripe customer ledger, the *)
(* Firestore user and quota documents, and the handlers that share them.   *)
(***************************************************************************)
EXTENDS Integers, Sequences, FiniteSets, TLC

\* ---------------------------------------------------------------- bounds
NumCalls == 3       \* checkAndConsumeQuota invocations in one behaviour
MaxNow   == 2       \* the server clock runs over 0..MaxNow
MaxLimit == 2       \* largest configured daily limit
MaxCust  == 2       \* ledger customer ids 1..MaxCust
MaxSubs  == 2       \* longest subscription list the ledger returns
MainCalls == 2      \* calls that run in Spec
MaxLogins == 2      \* times a browser signs in

Calls   == 1..NumCalls
Users   == {"u1", "u2"}
CustIds == 1..MaxCust
Tiers   == {"basic", "pro", "elite"}
None    == "none"           \* null / undefined / ''
NoCid   == 0                \* no customer id (null)
NoDoc   == [exists |-> FALSE, day |-> 0 - 1, count |-> 0, max |-> 0,
            plan |-> None, updatedAt |-> 0 - 1]
NoCust  == [exists |-> FALSE, uid |-> None, email |-> None, created |-> 0]

Min(S) == CHOOSE x \in S : \A y \in S : x <= y

\* ------------------------------------------------------------ strings
\* A string is a sequence of one-character strings.
toLowerCase(s) ==
  LET lower(c) == CASE c = "B" -> "b" [] c = "A" -> "a" [] c = "S" -> "s"
                    [] c = "I" -> "i" [] c = "C" -> "c" [] c = "P" -> "p"
                    [] c = "R" -> "r" [] c = "O" -> "o" [] c = "E" -> "e"
                    [] c = "L" -> "l" [] c = "T" -> "t" [] c = "M" -> "m"
                    [] c = "Q" -> "q" [] c = "U" -> "u"
                    [] OTHER -> c
  IN [i \in 1..Len(s) |-> lower(s[i])]

includes(s, t) ==
  \E i \in 1..(Len(s) - Len(t) + 1) : SubSeq(s, i, i + Len(t) - 1) = t

StrBasic == <<"b", "a", "s", "i", "c">>
StrPro   == <<"p", "r", "o">>
StrElite == <<"e", "l", "i", "t", "e">>

\* ------------------------------------------------- environment (.env)
STRIPE_PRICE_BASIC == "price_basic"
STRIPE_PRICE_PRO   == "price_pro"
STRIPE_PRICE_ELITE == "price_elite"

envMap(priceId) ==
  CASE priceId = STRIPE_PRICE_ELITE -> "elite"
    [] priceId = STRIPE_PRICE_PRO   -> "pro"
    [] priceId = STRIPE_PRICE_BASIC -> "basic"
    [] OTHER -> None

\* ------------------------------------------------------- ledger values
\* price of a tier, matched by its configured id
PriceOfTier(t) ==
  [id |-> CASE t = "basic" -> STRIPE_PRICE_BASIC [] t = "pro" -> STRIPE_PRICE_PRO
            [] OTHER -> STRIPE_PRICE_ELITE,
   nickname |-> <<>>, lookup_key |-> <<>>]


\* A subscription as the ledger returns it. A subscription set to cancel at
\* period end carries the end of its current period as cancel_at, the
\* timestamp at which the scheduled cancellation takes effect; 0 is null.
Sub(id, status, cape, cpe, created, price) ==
  [id |-> id, status |-> status, cancel_at_period_end |-> cape,
   cancel_at |-> IF cape THEN cpe ELSE 0,
   current_period_end |-> cpe, created |-> created, price |-> price]

\* Subscriptions the ledger holds in the system specifications.
SubPool ==
  { Sub("sub_b", "active",   FALSE, MaxNow + 1, 1, PriceOfTier("basic")),
    Sub("sub_p", "active",   FALSE, MaxNow + 1, 2, PriceOfTier("pro")),
    Sub("sub_e", "trialing", TRUE,  1,          2, PriceOfTier("elite")),
    Sub("sub_d", "past_due", FALSE, MaxNow + 1, 3, PriceOfTier("elite")),
    Sub("sub_x", "active",   FALSE, MaxNow + 1, 3,
        [id |-> "price_other", nickname |-> <<"G", "o", "l", "d">>, lookup_key |-> <<>>]) }

SeqsUpTo(S, n) == UNION { [1..k -> S] : k \in 0..n }

\* Lists without a repeated subscription id.
SubLists == { l \in SeqsUpTo(SubPool, MaxSubs) :
                \A i, j \in 1..Len(l) : i # j => l[i].id # l[j].id }

\* Prices and subscriptions of SpecPlan: every combination of a price id, a
\* nickname and a lookup key, and every combination of status, cancellation
\* flag, period end and creation time.
PriceIds == {STRIPE_PRICE_BASIC, STRIPE_PRICE_PRO, "price_other", None}
Names    == { << >>, StrBasic, <<"P", "R", "O">>, <<"E", "l", "i", "t", "e">> }
Prices   == [id : PriceIds, nickname : Names, lookup_key : Names]
Statuses == {"active", "trialing", "past_due", "unpaid", "canceled"}

\* one active subscription of any price
PriceLists == { << Sub("sub_b", "active", FALSE, MaxNow + 1, 1, pr) >> : pr \in Prices }

\* the first and the second subscription of a listing
StatusSubs(id, created) ==
  { Sub(id, st, cape, cpe, created, PriceOfTier(t)) :
      st \in Statuses, cape \in BOOLEAN, cpe \in 1..MaxNow, t \in {"basic", "pro"} }

\* listings of one or two subscriptions, in either order of creation
StatusLists ==
  { << x >> : x \in StatusSubs("sub_b", 1) } \cup
  { << x, y >> : x \in StatusSubs("sub_b", 1), y \in StatusSubs("sub_p", 2) } \cup
  { << x, y >> : x \in StatusSubs("sub_b", 2), y \in StatusSubs("sub_p", 1) }

\* ------------------------------------------------------ lib/billing/limit
\* The configured daily limit of each tier (limit.js is not in the sources).
DefaultLimits == [t \in Tiers |-> IF t = "basic" THEN 1 ELSE MaxLimit]

\* a deployment that gives the basic tier no allowance
ZeroBasicLimits == [t \in Tiers |-> IF t = "basic" THEN 0 ELSE MaxLimit]

LimitConfigs == {DefaultLimits, ZeroBasicLimits}

\* todayKey(): the day key of the server clock; one clock unit is one day.
todayKey(t) == t

\* The e-mail the identity service holds for a user.
EmailOf(u) == IF u = "u1" THEN "e1" ELSE "e2"

SubIds   == { x.id : x \in SubPool }
EventIds == {"evt_1", "evt_2"}
SessionIds == {"cs_1"}

NoMirror == [subscriptionId |-> None, priceId |-> None, activePlan |-> None,
             subscriptionStatus |-> None, currentPeriodEnd |-> 0,
             cancelAtPeriodEnd |-> FALSE]
NoOrphan == [exists |-> FALSE, customerId |-> NoCid, status |-> None]
NoSub == [id |-> None, status |-> None, cancel_at_period_end |-> FALSE, cancel_at |-> 0,
          current_period_end |-> 0, created |-> 0,
          price |-> [id |-> None, nickname |-> << >>, lookup_key |-> << >>]]
NoDelivery == [status |-> 0, id |-> None, type |-> None, verified |-> FALSE,
               accepted |-> FALSE, customer |-> NoCid, sub |-> NoSub, stage |-> None,
               applied |-> FALSE]
Browsers == {"b1", "b2", "b3"}
NoSession == [id |-> None, signedIn |-> FALSE, pending |-> None, seen |-> None,
              by |-> None, logins |-> 0]
NoReply == [endpoint |-> None, verified |-> FALSE, code |-> 0, uid |-> None,
            email |-> None, active |-> FALSE, status |-> None, customer |-> NoCid,
            subscription |-> None]
NoResponse == [status |-> 0, error_code |-> None, error |-> None]
NoEvent  == [exists |-> FALSE, type |-> None, stripeCustomerId |-> NoCid,
             subscriptionId |-> None, uid |-> None]

Envs == [production : BOOLEAN, devNoVerify : BOOLEAN, emulator : BOOLEAN,
         authEmulator : BOOLEAN]

\* ---------------------------------------------------------------- state
VARIABLES
  now,         \* server clock (Date.now() in seconds)
  limitCfg,    \* the deployed limit table read by limitForPlan
  faults,      \* TRUE when collaborator calls may fail in this behaviour
  userDoc,     \* users/{uid}.stripeCustomerId
  customers,   \* ledger customers: id -> record
  subs,        \* ledger subscriptions: customer id -> list as returned
  quota,       \* users/{uid}/quota/daily
  quota0,      \* history: quota as it was initially
  env,         \* process.env flags of the deployment
  mirror,      \* users/{uid}: subscription snapshot fields
  lastCheckout,  \* users/{uid}.lastCheckoutSessionId
  stripeOrphans, \* stripeOrphans/{subscription id}
  stripeEvents,  \* stripeEvents/{event id}
  delivery,      \* the last request to pages/api/stripe/webhook.js and its answer
  portal,        \* the customer of the last billing-portal session of each user
  client,        \* what the browser holds: its remaining counter and its day
  reply,         \* the last answer of the entitlement-status and billing-portal endpoints
  activeSessionId, \* users/{uid}.activeSessionId of the one user the browsers sign in as
  browser,       \* each browser: its session id, whether it is signed in, its queued claim
  pc,          \* position of each checkAndConsumeQuota call
  uid,         \* its argument
  email,       \* resolveStripeCustomerId: email
  stripeCustomerId, \* resolved customer id
  plan, max, today, \* checkAndConsumeQuota locals
  snap,        \* the quota document read by the running transaction
  attempts,    \* how many times the transaction's update function has run
  result,      \* how the call ended
  response     \* what pages/api/compare.js answered the request of the call

vars == << now, limitCfg, faults, userDoc, customers, subs, quota, quota0,
           env, mirror, lastCheckout, stripeOrphans, stripeEvents, delivery, portal,
           client, reply, activeSessionId, browser,
           pc, uid, email, stripeCustomerId, plan, max, today, snap, attempts, result,
           response >>

envVars  == << now, limitCfg, faults, env >>
hookVars == << mirror, lastCheckout, stripeOrphans, stripeEvents, delivery, portal,
              client, reply, activeSessionId, browser >>
callVars == << pc, uid, email, stripeCustomerId, plan, max, today, snap, attempts, result,
              response >>

limitForPlan(p) == IF p \in Tiers THEN limitCfg[p] ELSE 0

\* ------------------------------------------------------- quota.js helpers
\* faulty variant (for mutation analysis): a price that matches nothing falls back to the lowest tier
planFromPriceDefaultBasic(price) ==
  LET priceId   == price.id
      nickname  == toLowerCase(price.nickname)
      lookupKey == toLowerCase(price.lookup_key)
  IN  IF priceId # None /\ envMap(priceId) # None THEN envMap(priceId)
      ELSE IF includes(lookupKey, StrPro)   \/ includes(nickname, StrPro)   THEN "pro"
      ELSE IF includes(lookupKey, StrElite) \/ includes(nickname, StrElite) THEN "elite"
      ELSE "basic"

\* faulty variant (for mutation analysis): the tier names are tried before the configured ids
planFromPriceNamesFirst(price) ==
  LET priceId   == price.id
      nickname  == toLowerCase(price.nickname)
      lookupKey == toLowerCase(price.lookup_key)
  IN  IF includes(lookupKey, StrBasic) \/ includes(nickname, StrBasic) THEN "basic"
      ELSE IF includes(lookupKey, StrPro)   \/ includes(nickname, StrPro)   THEN "pro"
      ELSE IF includes(lookupKey, StrElite) \/ includes(nickname, StrElite) THEN "elite"
      ELSE IF priceId # None /\ envMap(priceId) # None THEN envMap(priceId)
      ELSE None

planFromPrice(price) ==
  LET priceId   == price.id
      nickname  == toLowerCase(price.nickname)
      lookupKey == toLowerCase(price.lookup_key)
  IN  IF priceId # None /\ envMap(priceId) # None THEN envMap(priceId)
      ELSE IF includes(lookupKey, StrBasic) \/ includes(nickname, StrBasic) THEN "basic"
      ELSE IF includes(lookupKey, StrPro)   \/ includes(nickname, StrPro)   THEN "pro"
      ELSE IF includes(lookupKey, StrElite) \/ includes(nickname, StrElite) THEN "elite"
      ELSE None

\* faulty variant (for mutation analysis): the status alone decides
isUsableStatusOnly(sub, t) == sub.status \in {"active", "trialing"}

\* faulty variant (for mutation analysis): the lenient status set of the display endpoints
isUsableLenient(sub, t) ==
  IF sub.status \notin {"active", "trialing", "past_due", "unpaid"} THEN FALSE
  ELSE IF sub.cancel_at_period_end THEN sub.current_period_end > t
  ELSE TRUE

isUsable(sub, t) ==
  IF sub.status \notin {"active", "trialing"} THEN FALSE
  ELSE IF sub.cancel_at_period_end THEN sub.current_period_end > t
  ELSE TRUE

\* Array.prototype.find: the first element in list order, or none
\* Array.prototype.find: the index of the first usable element in list
\* order, 0 when there is none
find(list, t) ==
  LET idx == { i \in 1..Len(list) : isUsable(list[i], t) }
  IN  IF idx = {} THEN 0 ELSE Min(idx)

getPlanFromStripeCustomer(list, t) ==
  LET active == find(list, t)
  IN  IF active = 0 THEN None ELSE planFromPrice(list[active].price)

\* data.sort((a, b) => b.created - a.created)[0].id : the ids a stable sort
\* can put first, the result order of the ledger being unspecified
mostRecent(ids) ==
  { c \in ids : \A d \in ids : customers[c].created >= customers[d].created }

searchByUid(u)   == { c \in CustIds : customers[c].exists /\ customers[c].uid = u }
searchByEmail(e) == { c \in CustIds : customers[c].exists /\ customers[c].email = e }

Ok == IF faults THEN BOOLEAN ELSE {TRUE}


\* ------------------------------------------- checkAndConsumeQuota({ uid })
Finish(p, r) ==
  /\ pc' = [pc EXCEPT ![p] = "done"]
  /\ result' = [result EXCEPT ![p] = r]

Goto(p, l) ==
  /\ pc' = [pc EXCEPT ![p] = l]
  /\ UNCHANGED result

\* the call arrives; a missing uid is refused at once (lines 104-108)
Begin(p, u) ==
  /\ pc[p] = "idle"
  /\ \A q \in Calls : q < p => pc[q] # "idle"
  /\ uid' = [uid EXCEPT ![p] = u]
  /\ IF u = None THEN Finish(p, "NO_PLAN") ELSE Goto(p, "userGet")
  /\ UNCHANGED << envVars, hookVars, response, userDoc, customers, subs, quota, quota0,
                  email, stripeCustomerId, plan, max, today, snap, attempts >>

\* faulty variant (for mutation analysis): the cached id is not looked at
UserGetNoCache(p) ==
  /\ pc[p] = "userGet"
  /\ \E ok \in Ok :
       IF ~ok THEN Finish(p, "ERROR") ELSE Goto(p, "searchUid")
  /\ UNCHANGED << envVars, hookVars, response, userDoc, customers, subs, quota, quota0,
                  uid, email, stripeCustomerId, plan, max, today, snap, attempts >>

\* resolveStripeCustomerId: userRef.get() and the cached id (lines 48-50)
UserGet(p) ==
  /\ pc[p] = "userGet"
  /\ \E ok \in Ok :
       IF ~ok THEN Finish(p, "ERROR") /\ UNCHANGED stripeCustomerId
       ELSE IF userDoc[uid[p]] # NoCid
         THEN /\ stripeCustomerId' = [stripeCustomerId EXCEPT ![p] = userDoc[uid[p]]]
              /\ Goto(p, "subsList")
         ELSE Goto(p, "searchUid") /\ UNCHANGED stripeCustomerId
  /\ UNCHANGED << envVars, hookVars, response, userDoc, customers, subs, quota, quota0,
                  uid, email, plan, max, today, snap, attempts >>

\* stripe.customers.search by metadata uid (lines 53-59, 63)
SearchByUid(p) ==
  /\ pc[p] = "searchUid"
  /\ \E ok \in Ok :
       IF ok /\ searchByUid(uid[p]) # {}
         THEN \E c \in mostRecent(searchByUid(uid[p])) :
                /\ stripeCustomerId' = [stripeCustomerId EXCEPT ![p] = c]
                /\ Goto(p, "setUid")
         ELSE Goto(p, "authGet") /\ UNCHANGED stripeCustomerId
  /\ UNCHANGED << envVars, hookVars, response, userDoc, customers, subs, quota, quota0,
                  uid, email, plan, max, today, snap, attempts >>

\* userRef.set({ stripeCustomerId }, { merge: true }) at label l; a failure
\* continues at onFail ("ERROR": the exception leaves the call)
Persist(p, l, onFail) ==
  /\ pc[p] = l
  /\ \E ok \in Ok :
       IF ok
         THEN /\ userDoc' = [userDoc EXCEPT ![uid[p]] = stripeCustomerId[p]]
              /\ Goto(p, "subsList")
              /\ UNCHANGED stripeCustomerId
         ELSE /\ UNCHANGED userDoc
              /\ IF onFail = "ERROR"
                   THEN Finish(p, "ERROR") /\ UNCHANGED stripeCustomerId
                   ELSE /\ Goto(p, onFail)
                        /\ stripeCustomerId' = [stripeCustomerId EXCEPT ![p] = NoCid]
  /\ UNCHANGED << envVars, hookVars, response, customers, subs, quota, quota0,
                  uid, email, plan, max, today, snap, attempts >>

\* faulty variant (for mutation analysis): a failed write of the id found by uid is ignored and the call
\* goes on with the id
PersistUidLenient(p) ==
  /\ pc[p] = "setUid"
  /\ \E ok \in Ok :
       /\ userDoc' = IF ok THEN [userDoc EXCEPT ![uid[p]] = stripeCustomerId[p]]
                     ELSE userDoc
       /\ Goto(p, "subsList")
  /\ UNCHANGED << envVars, hookVars, response, customers, subs, quota, quota0,
                  uid, email, stripeCustomerId, plan, max, today, snap, attempts >>

\* line 60, inside the try of lines 53-63
PersistUid(p) == Persist(p, "setUid", "authGet")

\* authAdmin.getUser(uid).catch(() => null) (lines 66-68)
AuthGet(p) ==
  /\ pc[p] = "authGet"
  /\ \E ok \in Ok :
       LET e == IF ok THEN EmailOf(uid[p]) ELSE None
       IN  /\ email' = [email EXCEPT ![p] = e]
           /\ IF e # None THEN Goto(p, "searchEmail") ELSE Goto(p, "create")
  /\ UNCHANGED << envVars, hookVars, response, userDoc, customers, subs, quota, quota0,
                  uid, stripeCustomerId, plan, max, today, snap, attempts >>

\* stripe.customers.search by email (lines 69-75, 79)
SearchByEmail(p) ==
  /\ pc[p] = "searchEmail"
  /\ \E ok \in Ok :
       IF ~ok THEN Goto(p, "listEmail") /\ UNCHANGED stripeCustomerId
       ELSE IF searchByEmail(email[p]) # {}
         THEN \E c \in mostRecent(searchByEmail(email[p])) :
                /\ stripeCustomerId' = [stripeCustomerId EXCEPT ![p] = c]
                /\ Goto(p, "setEmail")
         ELSE Goto(p, "create") /\ UNCHANGED stripeCustomerId
  /\ UNCHANGED << envVars, hookVars, response, userDoc, customers, subs, quota, quota0,
                  uid, email, plan, max, today, snap, attempts >>

\* line 76, inside the try of lines 69-79
PersistEmail(p) == Persist(p, "setEmail", "listEmail")

\* stripe.customers.list({ email }) in the catch (lines 80-82)
ListByEmail(p) ==
  /\ pc[p] = "listEmail"
  /\ \E ok \in Ok :
       IF ~ok THEN Finish(p, "ERROR") /\ UNCHANGED stripeCustomerId
       ELSE IF searchByEmail(email[p]) # {}
         THEN \E c \in mostRecent(searchByEmail(email[p])) :
                /\ stripeCustomerId' = [stripeCustomerId EXCEPT ![p] = c]
                /\ Goto(p, "setList")
         ELSE Goto(p, "create") /\ UNCHANGED stripeCustomerId
  /\ UNCHANGED << envVars, hookVars, response, userDoc, customers, subs, quota, quota0,
                  uid, email, plan, max, today, snap, attempts >>

\* line 83
PersistList(p) == Persist(p, "setList", "ERROR")

\* stripe.customers.create (lines 90-94)
CreateCustomer(p) ==
  /\ pc[p] = "create"
  /\ \E ok \in Ok :
       IF ~ok THEN Finish(p, "ERROR") /\ UNCHANGED << stripeCustomerId, customers >>
       ELSE /\ \E c \in CustIds : ~customers[c].exists
            /\ LET c == Min({ d \in CustIds : ~customers[d].exists })
               IN  /\ customers' = [customers EXCEPT ![c] =
                         [exists |-> TRUE, uid |-> uid[p], email |-> email[p],
                          created |-> now]]
                   /\ stripeCustomerId' = [stripeCustomerId EXCEPT ![p] = c]
            /\ Goto(p, "setCreated")
  /\ UNCHANGED << envVars, hookVars, response, userDoc, subs, quota, quota0,
                  uid, email, plan, max, today, snap, attempts >>

\* line 95
PersistCreated(p) == Persist(p, "setCreated", "ERROR")


\* faulty variant (for mutation analysis): the max <= 0 exit is missing
ListSubsNoZeroCheck(p) ==
  /\ pc[p] = "subsList"
  /\ \E ok \in Ok :
       IF ~ok THEN Finish(p, "ERROR") /\ UNCHANGED << plan, max, today >>
       ELSE LET pl == getPlanFromStripeCustomer(subs[stripeCustomerId[p]], now)
                m  == limitForPlan(pl)
            IN  /\ plan' = [plan EXCEPT ![p] = pl]
                /\ IF pl = None
                     THEN Finish(p, "NO_PLAN") /\ UNCHANGED << max, today >>
                     ELSE /\ max' = [max EXCEPT ![p] = m]
                          /\ today' = [today EXCEPT ![p] = todayKey(now)]
                          /\ Goto(p, "txnGet")
  /\ UNCHANGED << envVars, hookVars, response, userDoc, customers, subs, quota, quota0,
                  uid, email, stripeCustomerId, snap, attempts >>

\* getPlanFromStripeCustomer, the NO_PLAN exits, limitForPlan and todayKey
\* (lines 35-44 and 112-128): one step, from the ledger's answer to the
\* start of the transaction
\* faulty variant (for mutation analysis): the plan is taken from the user's mirror fields
ListSubsFromMirror(p) ==
  /\ pc[p] = "subsList"
  /\ \E ok \in Ok :
       IF ~ok THEN Finish(p, "ERROR") /\ UNCHANGED << plan, max, today >>
       ELSE LET pl == IF mirror[uid[p]].subscriptionStatus \in {"active", "trialing"}
                         /\ mirror[uid[p]].activePlan \in Tiers
                        THEN mirror[uid[p]].activePlan ELSE None
                m  == limitForPlan(pl)
            IN  /\ plan' = [plan EXCEPT ![p] = pl]
                /\ IF pl = None
                     THEN Finish(p, "NO_PLAN") /\ UNCHANGED << max, today >>
                     ELSE /\ max' = [max EXCEPT ![p] = m]
                          /\ IF m <= 0
                               THEN Finish(p, "NO_PLAN") /\ UNCHANGED today
                               ELSE /\ today' = [today EXCEPT ![p] = todayKey(now)]
                                    /\ Goto(p, "txnGet")
  /\ UNCHANGED << envVars, hookVars, response, userDoc, customers, subs, quota, quota0,
                  uid, email, stripeCustomerId, snap, attempts >>

ListSubs(p) ==
  /\ pc[p] = "subsList"
  /\ \E ok \in Ok :
       IF ~ok THEN Finish(p, "ERROR") /\ UNCHANGED << plan, max, today >>
       ELSE LET pl == getPlanFromStripeCustomer(subs[stripeCustomerId[p]], now)
                m  == limitForPlan(pl)
            IN  /\ plan' = [plan EXCEPT ![p] = pl]
                /\ IF pl = None
                     THEN Finish(p, "NO_PLAN") /\ UNCHANGED << max, today >>
                     ELSE /\ max' = [max EXCEPT ![p] = m]
                          /\ IF m <= 0
                               THEN Finish(p, "NO_PLAN") /\ UNCHANGED today
                               ELSE /\ today' = [today EXCEPT ![p] = todayKey(now)]
                                    /\ Goto(p, "txnGet")
  /\ UNCHANGED << envVars, hookVars, response, userDoc, customers, subs, quota, quota0,
                  uid, email, stripeCustomerId, snap, attempts >>

\* faulty variant (for mutation analysis): the stored count is used whatever its day
usedOfAnyDay(doc, day) == IF doc.exists THEN doc.count ELSE 0

\* lines 133-134
usedOf(doc, day) == IF doc.exists /\ doc.day = day THEN doc.count ELSE 0

\* faulty variant (for mutation analysis): the limit test is used > max
TxnGetOffByOne(p) ==
  /\ pc[p] = "txnGet"
  /\ \E ok \in Ok :
       IF ~ok THEN Finish(p, "ERROR") /\ UNCHANGED << snap, attempts >>
       ELSE /\ attempts' = [attempts EXCEPT ![p] = @ + 1]
            /\ IF usedOf(quota[uid[p]], today[p]) > max[p]
                 THEN Finish(p, "LIMIT_EXCEEDED") /\ UNCHANGED snap
                 ELSE /\ snap' = [snap EXCEPT ![p] = quota[uid[p]]]
                      /\ Goto(p, "txnCommit")
  /\ UNCHANGED << envVars, hookVars, response, userDoc, customers, subs, quota, quota0,
                  uid, email, stripeCustomerId, plan, max, today >>

\* faulty variant (for mutation analysis): a refused call still stamps the counter
TxnGetTouch(p) ==
  /\ pc[p] = "txnGet"
  /\ \E ok \in Ok :
       IF ~ok THEN Finish(p, "ERROR") /\ UNCHANGED << snap, attempts, quota >>
       ELSE /\ attempts' = [attempts EXCEPT ![p] = @ + 1]
            /\ IF usedOf(quota[uid[p]], today[p]) >= max[p]
                 THEN /\ Finish(p, "LIMIT_EXCEEDED")
                      /\ quota' = [quota EXCEPT ![uid[p]].updatedAt = now]
                      /\ UNCHANGED snap
                 ELSE /\ snap' = [snap EXCEPT ![p] = quota[uid[p]]]
                      /\ Goto(p, "txnCommit")
                      /\ UNCHANGED quota
  /\ UNCHANGED << envVars, hookVars, response, userDoc, customers, subs, quota0,
                  uid, email, stripeCustomerId, plan, max, today >>

\* db.runTransaction, the update function up to its write (lines 131-140)
TxnGet(p) ==
  /\ pc[p] = "txnGet"
  /\ \E ok \in Ok :
       IF ~ok THEN Finish(p, "ERROR") /\ UNCHANGED << snap, attempts >>
       ELSE /\ attempts' = [attempts EXCEPT ![p] = @ + 1]
            /\ IF usedOf(quota[uid[p]], today[p]) >= max[p]
                 THEN Finish(p, "LIMIT_EXCEEDED") /\ UNCHANGED snap
                 ELSE /\ snap' = [snap EXCEPT ![p] = quota[uid[p]]]
                      /\ Goto(p, "txnCommit")
  /\ UNCHANGED << envVars, hookVars, response, userDoc, customers, subs, quota, quota0,
                  uid, email, stripeCustomerId, plan, max, today >>

\* faulty variant (for mutation analysis): the count is incremented from the stored one whatever its day
quotaWriteKeepsCount(p) ==
  [exists |-> TRUE, day |-> today[p], count |-> snap[p].count + 1,
   max |-> max[p], plan |-> plan[p], updatedAt |-> now]

\* faulty variant (for mutation analysis): the count restarts when the plan differs from the stored one
quotaWriteResetsOnPlanChange(p) ==
  [exists |-> TRUE, day |-> today[p],
   count |-> IF snap[p].plan # plan[p] THEN 1 ELSE usedOf(snap[p], today[p]) + 1,
   max |-> max[p], plan |-> plan[p], updatedAt |-> now]

\* the document t.set writes (lines 142-152)
quotaWrite(p) ==
  [exists |-> TRUE, day |-> today[p], count |-> usedOf(snap[p], today[p]) + 1,
   max |-> max[p], plan |-> plan[p], updatedAt |-> now]

\* faulty variant (for mutation analysis): the write is applied without the transaction's isolation
TxnCommitBlind(p) ==
  /\ pc[p] = "txnCommit"
  /\ snap' = [snap EXCEPT ![p] = NoDoc]
  /\ \E ok \in Ok :
       IF ~ok THEN Finish(p, "ERROR") /\ UNCHANGED quota
       ELSE /\ quota' = [quota EXCEPT ![uid[p]] = quotaWrite(p)]
            /\ Finish(p, "OK")
  /\ UNCHANGED << envVars, hookVars, response, userDoc, customers, subs, quota0,
                  uid, email, stripeCustomerId, plan, max, today, attempts >>

\* faulty variant (for mutation analysis): one counter document shared by all users
TxnCommitEveryUser(p) ==
  /\ pc[p] = "txnCommit"
  /\ snap' = [snap EXCEPT ![p] = NoDoc]
  /\ \E ok \in Ok :
       IF ~ok THEN Finish(p, "ERROR") /\ UNCHANGED quota
       ELSE IF quota[uid[p]] = snap[p]
         THEN /\ quota' = [u \in Users |-> quotaWrite(p)]
              /\ Finish(p, "OK")
         ELSE Goto(p, "txnGet") /\ UNCHANGED quota
  /\ UNCHANGED << envVars, hookVars, response, userDoc, customers, subs, quota0,
                  uid, email, stripeCustomerId, plan, max, today, attempts >>

\* the commit of the transaction: it stands only if the document read is
\* still the stored one, otherwise the update function runs again. Each lost
\* commit is another call's commit, so a call reruns fewer than NumCalls
\* times.
TxnCommit(p) ==
  /\ pc[p] = "txnCommit"
  /\ snap' = [snap EXCEPT ![p] = NoDoc]
  /\ \E ok \in Ok :
       IF ~ok THEN Finish(p, "ERROR") /\ UNCHANGED quota
       ELSE IF quota[uid[p]] = snap[p]
         THEN /\ quota' = [quota EXCEPT ![uid[p]] = quotaWrite(p)]
              /\ Finish(p, "OK")
         ELSE Goto(p, "txnGet") /\ UNCHANGED quota
  /\ UNCHANGED << envVars, hookVars, response, userDoc, customers, subs, quota0,
                  uid, email, stripeCustomerId, plan, max, today, attempts >>

\* the request is dropped while the call is suspended at an await
Abandon(p) ==
  /\ pc[p] \notin {"idle", "done"}
  /\ Finish(p, "ABANDONED")
  /\ snap' = [snap EXCEPT ![p] = NoDoc]
  /\ UNCHANGED << envVars, hookVars, response, userDoc, customers, subs, quota, quota0,
                  uid, email, stripeCustomerId, plan, max, today, attempts >>

\* ------------------------------------------------- pages/api/compare.js
\* the message of the error checkAndConsumeQuota threw to call p (quota.js
\* lines 105, 115, 122 and 137; any other text for a collaborator's error)
messageOf(p) ==
  CASE result[p] = "NO_PLAN" /\ uid[p] = None -> "Missing uid"
    [] result[p] = "NO_PLAN" /\ plan[p] = None -> "No active subscription found on Stripe."
    [] result[p] = "NO_PLAN" -> "No active plan. Please buy a plan first."
    [] result[p] = "LIMIT_EXCEEDED" -> "Daily limit reached"
    [] OTHER -> "unavailable"

\* err.code of that error
codeOf(p) == IF result[p] \in {"NO_PLAN", "LIMIT_EXCEEDED"} THEN result[p] ELSE None

\* faulty variant (for mutation analysis): the decline is classified by the text of its message
quotaDeniedByMessage(code, msg) ==
  IF msg = "No active subscription found on Stripe."
    THEN [status |-> 403, error_code |-> "NO_PLAN", error |-> msg]
  ELSE IF msg = "Daily limit reached"
    THEN [status |-> 429, error_code |-> "LIMIT_EXCEEDED", error |-> msg]
  ELSE [status |-> 403, error_code |-> None, error |-> msg]

\* the catch around checkAndConsumeQuota (lines 56-62)
quotaDenied(code, msg) ==
  IF code = "NO_PLAN"
    THEN [status |-> 403, error_code |-> "NO_PLAN", error |-> msg]
  ELSE IF code = "LIMIT_EXCEEDED"
    THEN [status |-> 429, error_code |-> "LIMIT_EXCEEDED", error |-> msg]
  ELSE [status |-> 403, error_code |-> None, error |-> msg]

StrQuota == <<"q", "u", "o", "t", "a">>
StrResourceExhausted ==
  <<"r", "e", "s", "o", "u", "r", "c", "e", "-", "e", "x", "h", "a", "u", "s", "t", "e", "d">>

\* /quota|resource-exhausted/i.test(msg) (line 110)
isQuota(msg) ==
  includes(toLowerCase(msg), StrQuota) \/ includes(toLowerCase(msg), StrResourceExhausted)

\* texts of the errors parseForm and readFile can throw
ThrownMessages == { <<"E", "N", "O", "E", "N", "T">>, <<"Q", "u", "o", "t", "a">> }

\* the outer catch (lines 108-115)
serverError(msg) ==
  [status |-> IF isQuota(msg) THEN 429 ELSE 500, error_code |-> None,
   error |-> IF isQuota(msg) THEN "Quota exceeded" ELSE "Server error"]

\* lines 65-107: the files, the images and the answer of the AI provider
afterQuota(files, ai) ==
  IF files = "fewer"
    THEN [status |-> 400, error_code |-> None, error |-> "Upload 2 images (JPG/PNG/WEBP)"]
  ELSE IF ai = "error"
    THEN [status |-> 502, error_code |-> None, error |-> "AI provider error"]
  ELSE IF ai = "empty"
    THEN [status |-> 502, error_code |-> None, error |-> "OpenAI did not return a result"]
  ELSE [status |-> 200, error_code |-> None, error |-> None]

\* the request arrives: method, emulator bypass and token (lines 33-50), then
\* the call of checkAndConsumeQuota with the token's uid (line 55). token is
\* None when missing, "bad" when verifyIdToken rejects it, else its user.
CompareRequest(p, method, token) ==
  /\ pc[p] = "idle"
  /\ \A q \in Calls : q < p => pc[q] # "idle"
  /\ IF method # "POST"
       THEN /\ response' = [response EXCEPT ![p] =
                   [status |-> 405, error_code |-> None, error |-> "Method Not Allowed"]]
            /\ Finish(p, None) /\ UNCHANGED uid
     ELSE IF env.emulator
       THEN /\ uid' = [uid EXCEPT ![p] = "dev-user"]
            /\ Goto(p, "files") /\ UNCHANGED response
     ELSE IF token = None
       THEN /\ response' = [response EXCEPT ![p] =
                   [status |-> 401, error_code |-> None, error |-> "Unauthorized. Token missing."]]
            /\ Finish(p, None) /\ UNCHANGED uid
     ELSE IF token = "bad"
       THEN /\ response' = [response EXCEPT ![p] =
                   [status |-> 401, error_code |-> None, error |-> "Invalid or expired token"]]
            /\ Finish(p, None) /\ UNCHANGED uid
     ELSE /\ uid' = [uid EXCEPT ![p] = token]
          /\ Goto(p, "userGet") /\ UNCHANGED response
  /\ UNCHANGED << envVars, hookVars, userDoc, customers, subs, quota, quota0,
                  email, stripeCustomerId, plan, max, today, snap, attempts >>

\* the rest of the handler once checkAndConsumeQuota has returned or thrown
\* (lines 56-115)
CompareRespond(p) ==
  /\ response[p] = NoResponse
  /\ \/ /\ pc[p] = "done"
        /\ result[p] \in {"NO_PLAN", "LIMIT_EXCEEDED", "ERROR"}
        /\ response' = [response EXCEPT ![p] = quotaDenied(codeOf(p), messageOf(p))]
        /\ UNCHANGED pc
     \/ /\ pc[p] = "files" \/ (pc[p] = "done" /\ result[p] = "OK")
        /\ \E files \in {"two", "fewer", "thrown"}, ai \in {"ok", "error", "empty"} :
             IF files = "thrown"
               THEN \E msg \in ThrownMessages :
                      response' = [response EXCEPT ![p] = serverError(msg)]
               ELSE response' = [response EXCEPT ![p] = afterQuota(files, ai)]
        /\ pc' = [pc EXCEPT ![p] = "done"]
  /\ UNCHANGED << envVars, hookVars, userDoc, customers, subs, quota, quota0,
                  uid, email, stripeCustomerId, plan, max, today, snap, attempts, result >>

\* ------------------------------------------------------------ environment
Tick ==
  /\ now < MaxNow
  /\ now' = now + 1
  /\ UNCHANGED << limitCfg, faults, env, hookVars, userDoc, customers, subs, quota, quota0, callVars >>

\* the ledger changes the subscriptions of a customer
LedgerChange(c, l) ==
  /\ customers[c].exists
  /\ subs[c] # l
  /\ subs' = [subs EXCEPT ![c] = l]
  /\ UNCHANGED << envVars, hookVars, userDoc, customers, quota, quota0, callVars >>

\* the counter and the day the utility page keeps in the browser
\* (remainingKey, setRemaining); the client can send any of them
ClientValues == [remaining : 0..MaxLimit, day : {0, MaxNow}]

ClientChange(v) ==
  /\ client # v
  /\ client' = v
  /\ UNCHANGED << envVars, mirror, lastCheckout, stripeOrphans, stripeEvents, delivery,
                  portal, reply, activeSessionId, browser,
                  userDoc, customers, subs, quota, quota0, callVars >>

\* ------------------------------------------------------- the other handlers
\* Each handler below is one step. The Firestore documents it can write go
\* through it as one record, db.
Db == [userDoc |-> userDoc, mirror |-> mirror, lastCheckout |-> lastCheckout,
       quota |-> quota, stripeOrphans |-> stripeOrphans, stripeEvents |-> stripeEvents]

Store(db) ==
  /\ userDoc' = db.userDoc
  /\ mirror' = db.mirror
  /\ lastCheckout' = db.lastCheckout
  /\ quota' = db.quota
  /\ stripeOrphans' = db.stripeOrphans
  /\ stripeEvents' = db.stripeEvents

\* webhook.js PLAN_BY_PRICE[priceId] || 'unknown'
PLAN_BY_PRICE(priceId) ==
  IF priceId # None /\ envMap(priceId) # None THEN envMap(priceId) ELSE "unknown"

tsOrNull(sec) == IF sec > 0 THEN sec ELSE 0

\* webhook.js logStripeEvent
logStripeEvent(db, ev, c, subId, u) ==
  IF env.emulator THEN db
  ELSE [db EXCEPT !.stripeEvents[ev.id] =
          [exists |-> TRUE, type |-> ev.type, stripeCustomerId |-> c,
           subscriptionId |-> subId, uid |-> u]]

\* users the query where('stripeCustomerId', '==', customerId) can return
usersOfCustomer(db, c) == { u \in Users : db.userDoc[u] = c }

\* faulty variant (for mutation analysis): a subscription notification also clears the user's daily counter
writeFromSubscriptionEventResetsQuota(db, c, sub, u) ==
  IF env.emulator THEN db
  ELSE IF u = None
    THEN [db EXCEPT !.stripeOrphans[sub.id] =
            [exists |-> TRUE, customerId |-> c, status |-> sub.status]]
    ELSE [db EXCEPT !.userDoc[u] = c,
                    !.quota[u] = NoDoc,
                    !.mirror[u] =
                       [subscriptionId |-> sub.id,
                        priceId |-> sub.price.id,
                        activePlan |-> PLAN_BY_PRICE(sub.price.id),
                        subscriptionStatus |-> sub.status,
                        currentPeriodEnd |-> tsOrNull(sub.current_period_end),
                        cancelAtPeriodEnd |-> sub.cancel_at_period_end]]

\* faulty variant (for mutation analysis): the orphan record is written for every notification
writeFromSubscriptionEventOrphansAll(db, c, sub, u) ==
  IF env.emulator THEN db
  ELSE LET db1 == [db EXCEPT !.stripeOrphans[sub.id] =
                     [exists |-> TRUE, customerId |-> c, status |-> sub.status]]
       IN  IF u = None THEN db1
           ELSE [db1 EXCEPT !.userDoc[u] = c,
                            !.mirror[u] =
                               [subscriptionId |-> sub.id,
                                priceId |-> sub.price.id,
                                activePlan |-> PLAN_BY_PRICE(sub.price.id),
                                subscriptionStatus |-> sub.status,
                                currentPeriodEnd |-> tsOrNull(sub.current_period_end),
                                cancelAtPeriodEnd |-> sub.cancel_at_period_end]]

\* faulty variant (for mutation analysis): a mirror that is already filled is kept
writeFromSubscriptionEventKeepsFirst(db, c, sub, u) ==
  IF env.emulator THEN db
  ELSE IF u = None
    THEN [db EXCEPT !.stripeOrphans[sub.id] =
            [exists |-> TRUE, customerId |-> c, status |-> sub.status]]
    ELSE [db EXCEPT !.userDoc[u] = c,
                    !.mirror[u] =
                       IF @ # NoMirror THEN @
                       ELSE [subscriptionId |-> sub.id,
                             priceId |-> sub.price.id,
                             activePlan |-> PLAN_BY_PRICE(sub.price.id),
                             subscriptionStatus |-> sub.status,
                             currentPeriodEnd |-> tsOrNull(sub.current_period_end),
                             cancelAtPeriodEnd |-> sub.cancel_at_period_end]]

\* webhook.js writeFromSubscriptionEvent; u is the user the query returned,
\* None when it returned nothing
writeFromSubscriptionEvent(db, c, sub, u) ==
  IF env.emulator THEN db
  ELSE IF u = None
    THEN [db EXCEPT !.stripeOrphans[sub.id] =
            [exists |-> TRUE, customerId |-> c, status |-> sub.status]]
    ELSE [db EXCEPT !.userDoc[u] = c,
                    !.mirror[u] =
                       [subscriptionId |-> sub.id,
                        priceId |-> sub.price.id,
                        activePlan |-> PLAN_BY_PRICE(sub.price.id),
                        subscriptionStatus |-> sub.status,
                        currentPeriodEnd |-> tsOrNull(sub.current_period_end),
                        cancelAtPeriodEnd |-> sub.cancel_at_period_end]]

\* the answers of the query with limit(1)
QueryUser(db, c) ==
  IF usersOfCustomer(db, c) = {} THEN {None} ELSE usersOfCustomer(db, c)

\* webhook.js parseStripeEvent: is the payload accepted
parseStripeEvent(verified) ==
  verified \/ env.devNoVerify \/ ~env.production

SubEventTypes == {"customer.subscription.created", "customer.subscription.updated",
                  "customer.subscription.deleted"}

\* faulty variant (for mutation analysis): a failure while processing is answered 500
webhookStatusStrict(stage) == IF stage = "ok" THEN 200 ELSE 500

\* the status the handler answers a POST with: 200 from the end of the try,
\* from the catch of the subscription write and from the outer catch (lines
\* 206, 223 and 227); stage is where the processing failed: "parse", "log",
\* "write", "retrieve" (the retrieval or the write after it, caught in
\* handleCheckoutCompleted), or "ok"
webhookStatus(stage) == 200

\* outcomes of a write to the store: under IS_EMU the writers return before
\* they touch it
StoreOk == IF env.emulator THEN {TRUE} ELSE Ok

\* webhook.js handler, a request that is not a POST (line 186)
WebhookMethodNotAllowed ==
  /\ delivery' = [NoDelivery EXCEPT !.status = 405]
  /\ Store(Db)
  /\ UNCHANGED << envVars, customers, subs, quota0, callVars, portal, client, reply,
                  activeSessionId, browser >>

\* webhook.js handler, a customer.subscription.* notification for
\* subscription sub of customer c
WebhookSubscription(id, type, c, sub) ==
  /\ \E verified \in BOOLEAN, okLog \in StoreOk, okWrite \in StoreOk :
       LET stage == IF ~parseStripeEvent(verified) THEN "parse"
                    ELSE IF ~okLog THEN "log" ELSE IF ~okWrite THEN "write" ELSE "ok"
       IN
       /\ delivery' = [status |-> webhookStatus(stage), id |-> id, type |-> type,
                        verified |-> verified, accepted |-> parseStripeEvent(verified),
                        customer |-> c, sub |-> sub, stage |-> stage,
                        applied |-> stage = "ok"]
       /\ IF ~parseStripeEvent(verified) \/ ~okLog THEN Store(Db)
          ELSE LET ev  == [id |-> id, type |-> type]
                   db1 == logStripeEvent(Db, ev, c, sub.id, None)
               IN  IF ~okWrite THEN Store(db1)
                   ELSE \E u \in QueryUser(db1, c) :
                          Store(writeFromSubscriptionEvent(db1, c, sub, u))
  /\ UNCHANGED << envVars, customers, subs, quota0, callVars, portal, client, reply,
                  activeSessionId, browser >>

\* the places of subscription subId in the ledger
Located(subId) ==
  { x \in CustIds \X (1..MaxSubs) :
      x[2] <= Len(subs[x[1]]) /\ subs[x[1]][x[2]].id = subId }

\* webhook.js handleCheckoutCompleted, up to the subscription retrieval
checkoutMap(db, session) ==
  IF ~env.emulator /\ session.uid # None /\ session.customer # NoCid
    THEN [db EXCEPT !.userDoc[session.uid] = session.customer,
                    !.lastCheckout[session.uid] = session.id]
    ELSE db

\* webhook.js handler, a checkout.session.completed notification
WebhookCheckout(id, session) ==
  /\ \E verified \in BOOLEAN, okLog \in StoreOk, okLog2 \in StoreOk,
        okMap \in (IF session.mode = "subscription" /\ session.uid # None
                       /\ session.customer # NoCid THEN StoreOk ELSE {TRUE}),
        okSub \in (IF session.mode = "subscription" /\ session.subscription # None
                     THEN Ok ELSE {TRUE}) :
       LET stage == IF ~parseStripeEvent(verified) THEN "parse"
                    ELSE IF ~okLog THEN "log"
                    ELSE IF session.mode = "subscription" /\ ~okMap THEN "write"
                    ELSE IF ~okLog2 THEN "log"
                    ELSE IF session.mode = "subscription" /\ session.subscription # None
                            /\ ~okSub THEN "retrieve"
                    ELSE "ok"
       IN
       /\ delivery' = [status |-> webhookStatus(stage), id |-> id,
                        type |-> "checkout.session.completed",
                        verified |-> verified, accepted |-> parseStripeEvent(verified),
                        customer |-> session.customer, sub |-> NoSub,
                        stage |-> stage, applied |-> stage = "ok"]
       /\ IF ~parseStripeEvent(verified) \/ ~okLog THEN Store(Db)
          ELSE LET ev  == [id |-> id, type |-> "checkout.session.completed"]
                   db1 == logStripeEvent(Db, ev, session.customer, session.subscription, None)
                   relog(db) == IF okLog2
                     THEN logStripeEvent(db, ev, session.customer, session.subscription,
                            IF session.mode = "subscription" THEN session.uid ELSE None)
                     ELSE db
               IN  IF session.mode # "subscription" THEN Store(relog(db1))
                   ELSE IF ~okMap THEN Store(db1)
                   ELSE LET db2 == checkoutMap(db1, session)
                        IN  IF session.subscription = None \/ ~okSub
                                 \/ Located(session.subscription) = {}
                              THEN Store(relog(db2))
                              ELSE \E x \in Located(session.subscription) :
                                   \E u \in QueryUser(db2, x[1]) :
                                     Store(relog(writeFromSubscriptionEvent(
                                             db2, x[1], subs[x[1]][x[2]], u)))
  /\ UNCHANGED << envVars, customers, subs, quota0, callVars, portal, client, reply,
                  activeSessionId, browser >>

Sessions == [id : SessionIds, mode : {"subscription", "payment"},
             uid : Users \cup {None}, customer : CustIds \cup {NoCid},
             subscription : SubIds \cup {None}]

\* data.sort((a, b) => (b.created || 0) - (a.created || 0))[0]: the indexes a
\* stable sort can put first
latest(list) ==
  { i \in 1..Len(list) : \A j \in 1..Len(list) :
      list[i].created > list[j].created \/ (list[i].created = list[j].created /\ i <= j) }

\* a new ledger customer
createCustomer(u, e) ==
  /\ \E c \in CustIds : ~customers[c].exists
  /\ customers' = [customers EXCEPT ![Min({ d \in CustIds : ~customers[d].exists })] =
       [exists |-> TRUE, uid |-> u, email |-> e, created |-> now]]

\* faulty variant (for mutation analysis): the display set is the strict one
ACTIVE_STATES_Strict == {"trialing", "active"}

\* the states that still allow access (subscription-status.js line 101,
\* subscription/status.js line 97)
ACTIVE_STATES == {"trialing", "active", "past_due", "unpaid"}

\* what the endpoint answers for the latest subscription sub of customer c
statusReply(base, c, sub) ==
  [base EXCEPT !.code = 200, !.active = sub.status \in ACTIVE_STATES,
               !.status = sub.status, !.customer = c, !.subscription = sub.id]

\* pages/api/subscription/status.js handler for the verified token of user u
SubscriptionStatus(u) ==
  /\ \E okSearch \in Ok, okSet \in Ok, okList \in Ok, okSnap \in Ok :
     \E found \in (IF userDoc[u] # NoCid THEN {userDoc[u]}
                   ELSE IF searchByEmail(EmailOf(u)) = {} THEN {NoCid}
                   ELSE searchByEmail(EmailOf(u))) :
       LET db1 == IF userDoc[u] = NoCid /\ found # NoCid
                    THEN [Db EXCEPT !.userDoc[u] = found] ELSE Db
           base == [NoReply EXCEPT !.endpoint = "subscription/status", !.verified = TRUE,
                                   !.uid = u, !.email = EmailOf(u)]
           failed == [base EXCEPT !.code = 500]
       IN  IF ~okSearch THEN Store(Db) /\ reply' = failed
           ELSE IF found = NoCid
             THEN Store(Db) /\ reply' = [base EXCEPT !.code = 200, !.status = "no_customer"]
           ELSE IF ~okSet THEN Store(Db) /\ reply' = failed
           ELSE IF ~okList THEN Store(db1) /\ reply' = failed
           ELSE IF subs[found] = << >>
             THEN Store(db1) /\ reply' = [base EXCEPT !.code = 200,
                                                      !.status = "no_subscription"]
           ELSE IF ~okSnap THEN Store(db1) /\ reply' = failed
           ELSE \E i \in latest(subs[found]) :
                  LET sub == subs[found][i]
                  IN  /\ Store([db1 EXCEPT
                           !.userDoc[u] = found,
                           !.mirror[u] = [@ EXCEPT
                              !.priceId = sub.price.id,
                              !.activePlan = PLAN_BY_PRICE(sub.price.id),
                              !.subscriptionStatus = sub.status,
                              !.currentPeriodEnd = tsOrNull(sub.current_period_end),
                              !.cancelAtPeriodEnd = sub.cancel_at_period_end]])
                      /\ reply' = statusReply(base, found, sub)
  /\ UNCHANGED << envVars, customers, subs, quota0, callVars, delivery, portal, client,
                  activeSessionId, browser >>

\* faulty variant (for mutation analysis): the token's claims are used whether or not it verified
tokenAcceptedAlways(verified) == TRUE

\* may the handler act on the token's claims (subscription-status.js lines
\* 48-61, billing/portal.js lines 46-55)
tokenAccepted(verified) ==
  verified \/ ~env.production \/ env.authEmulator

\* pages/api/subscription-status.js handler for a token claiming e-mail e: it
\* reads the ledger and writes nothing
SubscriptionStatusByEmail(e) ==
  /\ \E verified \in BOOLEAN, okSearch \in Ok, okList \in Ok, okSubs \in Ok :
       LET base == [NoReply EXCEPT !.endpoint = "subscription-status",
                                   !.verified = verified, !.email = e]
           failed == [base EXCEPT !.code = 500]
       IN  IF ~tokenAccepted(verified) THEN reply' = failed
           ELSE IF e = None THEN reply' = [base EXCEPT !.code = 400]
           ELSE IF ~okSearch /\ ~okList THEN reply' = failed
           ELSE \E c \in (IF searchByEmail(e) = {} THEN {NoCid} ELSE searchByEmail(e)) :
                  IF c = NoCid
                    THEN reply' = [base EXCEPT !.code = 200, !.status = "no_customer"]
                  ELSE IF ~okSubs THEN reply' = failed
                  ELSE IF subs[c] = << >>
                    THEN reply' = [base EXCEPT !.code = 200, !.status = "no_subscription"]
                  ELSE \E i \in latest(subs[c]) : reply' = statusReply(base, c, subs[c][i])
  /\ UNCHANGED << envVars, mirror, lastCheckout, stripeOrphans, stripeEvents, delivery,
                  portal, client, activeSessionId, browser,
                  userDoc, customers, subs, quota, quota0, callVars >>

\* findOrCreateCustomerByEmail of pages/api/billing/portal.js (and of
\* pages/api/portal.js): the first customer the search by e-mail returns,
\* else the first the listing returns, else a new one. cid is the id it
\* returns, NoCid when the creation throws.
findOrCreateCustomerByEmail(e, u, cid) ==
  \E okSearch \in Ok, okList \in Ok, okCreate \in Ok :
    IF (okSearch \/ okList) /\ searchByEmail(e) # {}
      THEN cid \in searchByEmail(e) /\ UNCHANGED customers
    ELSE IF okCreate
      THEN /\ createCustomer(u, e)
           /\ cid = Min({ d \in CustIds : ~customers[d].exists })
    ELSE cid = NoCid /\ UNCHANGED customers

\* Array.prototype.find on the status: the index of the first subscription
\* of the list with status st, 0 when there is none
firstWith(list, st) ==
  IF \E i \in 1..Len(list) : list[i].status = st
    THEN Min({ i \in 1..Len(list) : list[i].status = st }) ELSE 0

\* billing/portal.js lines 92-95: the first active, else the first trialing,
\* else the first listed
pickBest(list) ==
  IF firstWith(list, "active") # 0 THEN firstWith(list, "active")
  ELSE IF firstWith(list, "trialing") # 0 THEN firstWith(list, "trialing")
  ELSE IF list = << >> THEN 0 ELSE 1

Intents == {"update", "cancel", "resume", "none"}

\* pages/api/billing/portal.js handler for a token of user u claiming email
\* e: the portal session is created for the customer found by e-mail, and
\* for the intents update and cancel it is scoped to the subscription
\* picked. The payload of an issued token has no uid field, so a token that
\* was not verified gives none.
BillingPortal(u, e, intent) ==
  /\ \E verified \in BOOLEAN, okSubs \in Ok :
       /\ verified => e = EmailOf(u)
       /\ LET base == [NoReply EXCEPT !.endpoint = "billing/portal", !.verified = verified,
                                      !.uid = u, !.email = e]
          IN  IF ~tokenAccepted(verified)
                THEN reply' = [base EXCEPT !.code = 500] /\ UNCHANGED << customers, portal >>
              ELSE IF e = None
                THEN reply' = [base EXCEPT !.code = 400] /\ UNCHANGED << customers, portal >>
              ELSE \E cid \in CustIds \cup {NoCid} :
                     /\ findOrCreateCustomerByEmail(e, IF verified THEN u ELSE None, cid)
                     /\ portal' = IF cid = NoCid THEN portal ELSE [portal EXCEPT ![u] = cid]
                     /\ reply' =
                          IF cid = NoCid THEN [base EXCEPT !.code = 500]
                          ELSE LET i == IF intent \in {"update", "cancel"} /\ okSubs
                                          THEN pickBest(subs[cid]) ELSE 0
                               IN  [base EXCEPT !.code = 200, !.customer = cid,
                                      !.subscription =
                                         IF i = 0 THEN None ELSE subs[cid][i].id]
  /\ Store(Db)
  /\ UNCHANGED << envVars, subs, quota0, callVars, delivery, client, activeSessionId, browser >>

\* the indexes a stable sort by creation, newest first, can put first among
\* the indexes S of the list
latestOf(list, S) ==
  { i \in S : \A j \in S :
      list[i].created > list[j].created \/ (list[i].created = list[j].created /\ i <= j) }

\* pickTargetSubscription of the other pages/api/billing/portal.js: the
\* first subscription scheduled to cancel, else the latest of the active
\* ones, else the latest of all; 0 when the customer has none
pickTargetSubscription(list) ==
  LET scheduled == { i \in 1..Len(list) : list[i].cancel_at_period_end }
      activeOnes == { i \in 1..Len(list) : list[i].status \in ACTIVE_STATES }
  IN  IF list = << >> THEN {0}
      ELSE IF scheduled # {} THEN {Min(scheduled)}
      ELSE IF activeOnes # {} THEN latestOf(list, activeOnes)
      ELSE latestOf(list, 1..Len(list))

\* the handler of that file for the verified token of user u: the session is
\* scoped to the target unless the target is scheduled to cancel and the
\* intent is cancel or resume
BillingPortalTarget(u, intent) ==
  /\ \E okSubs \in Ok :
       LET base == [NoReply EXCEPT !.endpoint = "billing/portal target", !.verified = TRUE,
                                   !.uid = u, !.email = EmailOf(u)]
       IN  \E cid \in CustIds \cup {NoCid} :
             /\ findOrCreateCustomerByEmail(EmailOf(u), u, cid)
             /\ IF cid = NoCid \/ (intent # "none" /\ ~okSubs)
                  THEN reply' = [base EXCEPT !.code = 500] /\ UNCHANGED portal
                  ELSE /\ portal' = [portal EXCEPT ![u] = cid]
                       /\ \E i \in (IF intent = "none" THEN {0}
                                    ELSE pickTargetSubscription(subs[cid])) :
                            reply' = [base EXCEPT !.code = 200, !.customer = cid,
                              !.subscription =
                                 IF i = 0 THEN None
                                 ELSE IF intent \in {"cancel", "resume"}
                                         /\ subs[cid][i].cancel_at_period_end THEN None
                                 ELSE subs[cid][i].id]
  /\ Store(Db)
  /\ UNCHANGED << envVars, subs, quota0, callVars, delivery, client, activeSessionId, browser >>

\* pages/api/checkout.js getOrCreateCustomer: by uid, by email, else create
getOrCreateCustomer(u, e) ==
  \E okUid \in Ok, okCreate \in Ok :
    IF (okUid /\ searchByUid(u) # {}) \/ searchByEmail(e) # {} THEN UNCHANGED customers
    ELSE IF okCreate THEN createCustomer(u, e)
    ELSE UNCHANGED customers

\* pages/api/checkout.js handler for the verified token of user u
Checkout(u, validPrice) ==
  /\ IF validPrice THEN getOrCreateCustomer(u, EmailOf(u)) ELSE UNCHANGED customers
  /\ Store(Db)
  /\ UNCHANGED << envVars, subs, quota0, callVars, delivery, portal, client, reply,
                  activeSessionId, browser >>

\* ------------------------------------------- single-session guard (pages)
\* getOrCreateSessionId: the id kept in the browser's localStorage, a fresh
\* random one on first use, 'fallback-session' when localStorage throws
getOrCreateSessionId(b, ok) == IF ok THEN b ELSE "fallback-session"

pageFrame ==
  UNCHANGED << envVars, mirror, lastCheckout, stripeOrphans, stripeEvents, delivery, portal,
               client, reply, userDoc, customers, subs, quota, quota0, callVars >>

\* the user signs in in browser b and the guard effect runs: setDoc queues
\* the claim { activeSessionId: mySessionId } and the listener is attached
Login(b) ==
  /\ ~browser[b].signedIn
  /\ browser[b].logins < MaxLogins
  /\ \E ok \in BOOLEAN :
       browser' = [browser EXCEPT ![b] =
         [id |-> getOrCreateSessionId(b, ok), signedIn |-> TRUE,
          pending |-> getOrCreateSessionId(b, ok), seen |-> None, by |-> None,
          logins |-> @.logins + 1]]
  /\ UNCHANGED activeSessionId
  /\ pageFrame

\* the queued claim of browser b reaches the server
Land(b) ==
  /\ browser[b].pending # None
  /\ activeSessionId' = browser[b].pending
  /\ browser' = [browser EXCEPT ![b].pending = None]
  /\ pageFrame

\* faulty variant (for mutation analysis): the guard signs out on any stored id
ObserveAnyId(b) ==
  /\ browser[b].signedIn
  /\ LET active == IF browser[b].pending # None THEN browser[b].pending
                   ELSE activeSessionId
     IN  browser' = [browser EXCEPT ![b] =
           IF active # None
             THEN [@ EXCEPT !.seen = active, !.signedIn = FALSE, !.by = "guard"]
             ELSE [@ EXCEPT !.seen = active]]
  /\ UNCHANGED activeSessionId
  /\ pageFrame

\* the onSnapshot callback of browser b: the snapshot shows the browser's own
\* queued write over the stored value; signOut when it holds another id
Observe(b) ==
  /\ browser[b].signedIn
  /\ LET active == IF browser[b].pending # None THEN browser[b].pending
                   ELSE activeSessionId
     IN  browser' = [browser EXCEPT ![b] =
           IF active # None /\ active # browser[b].id
             THEN [@ EXCEPT !.seen = active, !.signedIn = FALSE, !.by = "guard"]
             ELSE [@ EXCEPT !.seen = active]]
  /\ UNCHANGED activeSessionId
  /\ pageFrame

\* handleSignOut: the user signs out; a claim still queued may or may not be
\* sent afterwards
SignOut(b) ==
  /\ browser[b].signedIn
  /\ \E keep \in BOOLEAN :
       browser' = [browser EXCEPT ![b] =
         [@ EXCEPT !.signedIn = FALSE, !.by = "user",
                   !.pending = IF keep THEN @ ELSE None]]
  /\ UNCHANGED activeSessionId
  /\ pageFrame

\* ------------------------------------------------------------------ Init
InitHooks ==
  /\ mirror = [u \in Users |-> NoMirror]
  /\ lastCheckout = [u \in Users |-> None]
  /\ stripeOrphans = [i \in SubIds |-> NoOrphan]
  /\ stripeEvents = [e \in EventIds |-> NoEvent]
  /\ delivery = NoDelivery
  /\ portal = [u \in Users |-> NoCid]
  /\ client = [remaining |-> 0, day |-> 0]
  /\ reply = NoReply
  /\ activeSessionId = None
  /\ browser = [b \in Browsers |-> NoSession]

ProductionEnv == [production |-> TRUE, devNoVerify |-> FALSE, emulator |-> FALSE,
                  authEmulator |-> FALSE]

InitCalls ==
  /\ pc \in [Calls -> {"idle", "done"}]
  /\ uid = [p \in Calls |-> None]
  /\ email = [p \in Calls |-> None]
  /\ stripeCustomerId = [p \in Calls |-> NoCid]
  /\ plan = [p \in Calls |-> None]
  /\ max = [p \in Calls |-> 0]
  /\ today = [p \in Calls |-> 0]
  /\ snap = [p \in Calls |-> NoDoc]
  /\ attempts = [p \in Calls |-> 0]
  /\ result = [p \in Calls |-> None]
  /\ response = [p \in Calls |-> NoResponse]

\* Spec: the whole call for two users, from no cached identity, with
\* collaborator failures, abandoned requests, day changes and ledger changes.
MainLists ==
  { l \in SubLists :
      \/ l = << >>
      \/ Len(l) = 1 /\ l[1].id = "sub_b"
      \/ Len(l) = 2 /\ l[1].id = "sub_x" /\ l[2].id = "sub_p"
      \/ Len(l) = 2 /\ l[1].id = "sub_d" /\ l[2].id = "sub_p" }

\* customers the ledger can hold before the first call: none, or one made
\* for u1's e-mail by another endpoint
InitCustomers ==
  { [c \in CustIds |-> NoCust],
    [c \in CustIds |-> IF c = 1
        THEN [exists |-> TRUE, uid |-> None, email |-> EmailOf("u1"), created |-> 0]
        ELSE NoCust] }

Init ==
  /\ now = 0
  /\ limitCfg \in LimitConfigs
  /\ faults = TRUE
  /\ userDoc = [u \in Users |-> NoCid]
  /\ customers \in InitCustomers
  /\ subs = [c \in CustIds |-> << >>]
  /\ quota = [u \in Users |-> NoDoc]
  /\ quota0 = quota
  /\ InitHooks
  /\ env = ProductionEnv
  /\ InitCalls
  /\ \A p \in Calls : pc[p] = "idle" <=> p <= MainCalls

CallStep(p) ==
  \/ \E u \in Users \cup {None} : Begin(p, u)
  \/ UserGet(p) \/ SearchByUid(p) \/ PersistUid(p) \/ AuthGet(p)
  \/ SearchByEmail(p) \/ PersistEmail(p) \/ ListByEmail(p) \/ PersistList(p)
  \/ CreateCustomer(p) \/ PersistCreated(p)
  \/ ListSubs(p) \/ TxnGet(p) \/ TxnCommit(p) \/ Abandon(p)

Next ==
  \/ \E p \in Calls : CallStep(p)
  \/ \E c \in CustIds, l \in MainLists : LedgerChange(c, l)

Spec == Init /\ [][Next]_vars

\* ---------------------------------------------------------------------
\* SpecQuota: the calls of one user whose identity is cached, under day
\* changes and plan switches; no collaborator fails.
QuotaUser == "u1"

QuotaLists == { l \in SubLists : Len(l) = 1 /\ l[1].id \in {"sub_b", "sub_p", "sub_e"} }

\* counters an earlier call of day 0 can have left
InitDocs ==
  {NoDoc} \cup
  { [exists |-> TRUE, day |-> 0, count |-> c, max |-> DefaultLimits[t],
     plan |-> t, updatedAt |-> 0] :
       t \in Tiers, c \in 1..MaxLimit }

InitQuota ==
  /\ now = 0
  /\ limitCfg = DefaultLimits
  /\ faults = FALSE
  /\ userDoc = [u \in Users |-> IF u = QuotaUser THEN 1 ELSE NoCid]
  /\ customers = [c \in CustIds |->
       IF c = 1 THEN [exists |-> TRUE, uid |-> QuotaUser,
                      email |-> EmailOf(QuotaUser), created |-> 0]
       ELSE NoCust]
  /\ \E l \in QuotaLists : subs = [c \in CustIds |-> IF c = 1 THEN l ELSE << >>]
  /\ \E d \in InitDocs :
       /\ d.count <= d.max
       /\ quota = [u \in Users |-> IF u = QuotaUser THEN d ELSE NoDoc]
  /\ quota0 = quota
  /\ InitHooks
  /\ env = ProductionEnv
  /\ InitCalls
  /\ \A p \in Calls : pc[p] = "idle"

NextQuota ==
  \/ \E p \in Calls : Begin(p, QuotaUser)
  \/ \E p \in Calls : UserGet(p)
  \/ \E p \in Calls : ListSubs(p)
  \/ \E p \in Calls : TxnGet(p)
  \/ \E p \in Calls : TxnCommit(p)
  \/ Tick
  \/ \E l \in QuotaLists : LedgerChange(1, l)

SpecQuota == InitQuota /\ [][NextQuota]_vars


\* ---------------------------------------------------------------------
\* SpecHandlers: a call of a user with a cached identity next to the
\* lifecycle notifications and the entitlement-status, billing-portal and
\* checkout requests of both users.
HookSub == CHOOSE x \in SubPool : x.id = "sub_p"

HookSessions ==
  { x \in Sessions : /\ x.mode = "subscription" => x.uid # QuotaUser
                     /\ x.mode = "payment" => x.uid = None
                     /\ x.uid = None => x.customer = NoCid /\ x.subscription = None
                     /\ x.uid # None => x.customer # NoCid
                     /\ x.subscription \in {None, HookSub.id} }

InitHandlers ==
  /\ now = 0
  /\ limitCfg = DefaultLimits
  /\ faults = FALSE
  /\ env = ProductionEnv
  /\ userDoc = [u \in Users |-> IF u = QuotaUser THEN 1 ELSE NoCid]
  /\ customers = [c \in CustIds |->
       IF c = 1 THEN [exists |-> TRUE, uid |-> QuotaUser,
                      email |-> EmailOf(QuotaUser), created |-> 0]
       ELSE NoCust]
  /\ subs = [c \in CustIds |-> IF c = 1 THEN << HookSub >> ELSE << >>]
  /\ quota = [u \in Users |-> NoDoc]
  /\ quota0 = quota
  /\ InitHooks
  /\ InitCalls
  /\ \A p \in Calls : pc[p] = "idle" <=> p = 1

NextHandlers ==
  \/ \E p \in Calls : Begin(p, QuotaUser)
  \/ \E p \in Calls : UserGet(p)
  \/ \E p \in Calls : ListSubs(p)
  \/ \E p \in Calls : TxnGet(p)
  \/ \E p \in Calls : TxnCommit(p)
  \/ \E c \in CustIds : WebhookSubscription("evt_1", "customer.subscription.updated", c, HookSub)
  \/ \E session \in HookSessions : WebhookCheckout("evt_1", session)
  \/ \E u \in Users : SubscriptionStatus(u)
  \/ BillingPortal(QuotaUser, EmailOf(QuotaUser), "none")
  \/ \E u \in Users, validPrice \in BOOLEAN : Checkout(u, validPrice)

SpecHandlers == InitHandlers /\ [][NextHandlers]_vars

\* ---------------------------------------------------------------------
\* SpecPlan: one call of a user whose identity is cached, for every listing
\* of PriceLists and StatusLists and every time of the clock.
InitPlan ==
  /\ now \in 0..MaxNow
  /\ limitCfg = DefaultLimits
  /\ faults = FALSE
  /\ env = ProductionEnv
  /\ userDoc = [u \in Users |-> IF u = QuotaUser THEN 1 ELSE NoCid]
  /\ customers = [c \in CustIds |->
       IF c = 1 THEN [exists |-> TRUE, uid |-> QuotaUser,
                      email |-> EmailOf(QuotaUser), created |-> 0]
       ELSE NoCust]
  /\ \E l \in PriceLists \cup StatusLists :
       subs = [c \in CustIds |-> IF c = 1 THEN l ELSE << >>]
  /\ quota = [u \in Users |-> NoDoc]
  /\ quota0 = quota
  /\ InitHooks
  /\ InitCalls
  /\ \A p \in Calls : pc[p] = "idle" <=> p = 1

NextPlan ==
  \/ \E p \in Calls : Begin(p, QuotaUser)
  \/ \E p \in Calls : UserGet(p)
  \/ \E p \in Calls : ListSubs(p)
  \/ \E p \in Calls : TxnGet(p)
  \/ \E p \in Calls : TxnCommit(p)

SpecPlan == InitPlan /\ [][NextPlan]_vars

\* ---------------------------------------------------------------------
\* SpecSequential: calls made one after the other, each started when the one
\* before has ended, and no collaborator fails.
SeqSub == CHOOSE x \in SubPool : x.id = "sub_p"

\* the ledger before the first call: no customer, one for u1's e-mail, one
\* carrying u1's uid, or two carrying it
SeqCustomers ==
  InitCustomers \cup
  { [c \in CustIds |-> IF c = 1
        THEN [exists |-> TRUE, uid |-> "u1", email |-> None, created |-> 0]
        ELSE NoCust],
    [c \in CustIds |->
        [exists |-> TRUE, uid |-> "u1", email |-> None, created |-> IF c = 1 THEN 1 ELSE 0]] }

InitSequential ==
  /\ now = 0
  /\ limitCfg = DefaultLimits
  /\ faults = FALSE
  /\ env = ProductionEnv
  /\ userDoc = [u \in Users |-> NoCid]
  /\ customers \in SeqCustomers
  /\ subs = [c \in CustIds |-> << SeqSub >>]
  /\ quota = [u \in Users |-> NoDoc]
  /\ quota0 = quota
  /\ InitHooks
  /\ InitCalls
  /\ \A p \in Calls : pc[p] = "idle"

\* no other call is in progress
Alone(p) == \A q \in Calls \ {p} : pc[q] \in {"idle", "done"}

NextSequential ==
  \/ \E p \in Calls, u \in Users : Alone(p) /\ Begin(p, u)
  \/ \E p \in Calls : Alone(p) /\ UserGet(p)
  \/ \E p \in Calls : Alone(p) /\ SearchByUid(p)
  \/ \E p \in Calls : Alone(p) /\ PersistUid(p)
  \/ \E p \in Calls : Alone(p) /\ AuthGet(p)
  \/ \E p \in Calls : Alone(p) /\ SearchByEmail(p)
  \/ \E p \in Calls : Alone(p) /\ PersistEmail(p)
  \/ \E p \in Calls : Alone(p) /\ CreateCustomer(p)
  \/ \E p \in Calls : Alone(p) /\ PersistCreated(p)
  \/ \E p \in Calls : Alone(p) /\ ListSubs(p)
  \/ \E p \in Calls : Alone(p) /\ TxnGet(p)
  \/ \E p \in Calls : Alone(p) /\ TxnCommit(p)

SpecSequential == InitSequential /\ [][NextSequential]_vars

\* ---------------------------------------------------------------------
\* SpecCompare: requests to pages/api/compare.js for a user whose identity
\* is cached, in production and under the emulator, with and without
\* collaborator failures.
CompareLists == { l \in SubLists : l = << >> \/ (Len(l) = 1 /\ l[1].id \in {"sub_b", "sub_p"}) }

InitCompare ==
  /\ now = 0
  /\ limitCfg \in LimitConfigs
  /\ faults \in BOOLEAN
  /\ env \in {ProductionEnv, [ProductionEnv EXCEPT !.emulator = TRUE]}
  /\ userDoc = [u \in Users |-> IF u = QuotaUser THEN 1 ELSE NoCid]
  /\ customers = [c \in CustIds |->
       IF c = 1 THEN [exists |-> TRUE, uid |-> QuotaUser,
                      email |-> EmailOf(QuotaUser), created |-> 0]
       ELSE NoCust]
  /\ \E l \in CompareLists : subs = [c \in CustIds |-> IF c = 1 THEN l ELSE << >>]
  /\ quota = [u \in Users |-> NoDoc]
  /\ quota0 = quota
  /\ InitHooks
  /\ InitCalls
  /\ \A p \in Calls : pc[p] = "idle"

NextCompare ==
  \/ \E p \in Calls, method \in {"POST", "GET"}, token \in {None, "bad", QuotaUser} :
       CompareRequest(p, method, token)
  \/ \E p \in Calls : UserGet(p)
  \/ \E p \in Calls : ListSubs(p)
  \/ \E p \in Calls : TxnGet(p)
  \/ \E p \in Calls : TxnCommit(p)
  \/ \E p \in Calls : CompareRespond(p)
  \/ \E l \in CompareLists : LedgerChange(1, l)

SpecCompare == InitCompare /\ [][NextCompare]_vars

\* ---------------------------------------------------------------------
\* SpecPortal: the sequential calls of SpecSequential next to billing-portal
\* requests carrying the users' verified tokens.
\* the ledger before the first request: as in SpecSequential, or two
\* customers with u1's e-mail of which the older carries u1's uid
PortalCustomers ==
  SeqCustomers \cup
  { [c \in CustIds |-> IF c = 1
        THEN [exists |-> TRUE, uid |-> "u1", email |-> EmailOf("u1"), created |-> 0]
        ELSE IF c = 2
          THEN [exists |-> TRUE, uid |-> None, email |-> EmailOf("u1"), created |-> 1]
        ELSE NoCust] }

InitPortal ==
  /\ now = 0
  /\ limitCfg = DefaultLimits
  /\ faults = FALSE
  /\ env = ProductionEnv
  /\ userDoc = [u \in Users |-> NoCid]
  /\ customers \in PortalCustomers
  /\ subs = [c \in CustIds |-> << SeqSub >>]
  /\ quota = [u \in Users |-> NoDoc]
  /\ quota0 = quota
  /\ InitHooks
  /\ InitCalls
  /\ \A p \in Calls : pc[p] = "idle" <=> p <= MainCalls

NextPortal ==
  \/ \E p \in Calls, u \in Users : Alone(p) /\ Begin(p, u)
  \/ \E p \in Calls : Alone(p) /\ UserGet(p)
  \/ \E p \in Calls : Alone(p) /\ SearchByUid(p)
  \/ \E p \in Calls : Alone(p) /\ PersistUid(p)
  \/ \E p \in Calls : Alone(p) /\ AuthGet(p)
  \/ \E p \in Calls : Alone(p) /\ SearchByEmail(p)
  \/ \E p \in Calls : Alone(p) /\ PersistEmail(p)
  \/ \E p \in Calls : Alone(p) /\ CreateCustomer(p)
  \/ \E p \in Calls : Alone(p) /\ PersistCreated(p)
  \/ \E p \in Calls : Alone(p) /\ ListSubs(p)
  \/ \E p \in Calls : Alone(p) /\ TxnGet(p)
  \/ \E p \in Calls : Alone(p) /\ TxnCommit(p)
  \/ \E u \in Users : BillingPortal(u, EmailOf(u), "none")

SpecPortal == InitPortal /\ [][NextPortal]_vars

\* ---------------------------------------------------------------------
\* SpecMirror: one call of a user whose identity is cached, for every
\* listing, stored counter and day, while notifications rewrite the user's
\* mirror and the browser's counters change.
MirrorSubs ==
  { HookSub, [HookSub EXCEPT !.status = "canceled"],
    CHOOSE x \in SubPool : x.id = "sub_b" }

InitMirror ==
  /\ now \in 0..MaxNow
  /\ limitCfg = DefaultLimits
  /\ faults = FALSE
  /\ env = ProductionEnv
  /\ userDoc = [u \in Users |-> IF u = QuotaUser THEN 1 ELSE NoCid]
  /\ customers = [c \in CustIds |->
       IF c = 1 THEN [exists |-> TRUE, uid |-> QuotaUser,
                      email |-> EmailOf(QuotaUser), created |-> 0]
       ELSE NoCust]
  /\ \E l \in CompareLists : subs = [c \in CustIds |-> IF c = 1 THEN l ELSE << >>]
  /\ \E d \in InitDocs :
       /\ d.count <= d.max
       /\ quota = [u \in Users |-> IF u = QuotaUser THEN d ELSE NoDoc]
  /\ quota0 = quota
  /\ InitHooks
  /\ InitCalls
  /\ \A p \in Calls : pc[p] = "idle" <=> p = 1

NextMirror ==
  \/ \E p \in Calls : Begin(p, QuotaUser)
  \/ \E p \in Calls : UserGet(p)
  \/ \E p \in Calls : ListSubs(p)
  \/ \E p \in Calls : TxnGet(p)
  \/ \E p \in Calls : TxnCommit(p)
  \/ \E sub \in MirrorSubs :
       WebhookSubscription("evt_1", "customer.subscription.updated", 1, sub)
  \/ \E v \in ClientValues : ClientChange(v)

SpecMirror == InitMirror /\ [][NextMirror]_vars

\* ---------------------------------------------- entitlement: two readers
\* listings of one or two subscriptions of one price, every status
EntitlementLists ==
  { l \in StatusLists : \A i \in 1..Len(l) :
      l[i].price = PriceOfTier("pro") /\ l[i].current_period_end = MaxNow }

\* one user whose record holds its customer; the ledger and the clock do not
\* change, so the enforcement path and the display endpoints read the same
\* ledger state
InitEntitlement ==
  /\ now = 0
  /\ limitCfg = DefaultLimits
  /\ faults = FALSE
  /\ env = ProductionEnv
  /\ userDoc = [u \in Users |-> IF u = QuotaUser THEN 1 ELSE NoCid]
  /\ customers = [c \in CustIds |->
       IF c = 1 THEN [exists |-> TRUE, uid |-> QuotaUser,
                      email |-> EmailOf(QuotaUser), created |-> 0]
       ELSE NoCust]
  /\ \E l \in EntitlementLists : subs = [c \in CustIds |-> IF c = 1 THEN l ELSE << >>]
  /\ quota = [u \in Users |-> NoDoc]
  /\ quota0 = quota
  /\ InitHooks
  /\ InitCalls
  /\ \A p \in Calls : pc[p] = "idle" <=> p = 1

NextEntitlement ==
  \/ \E p \in Calls : Begin(p, QuotaUser)
  \/ \E p \in Calls : UserGet(p)
  \/ \E p \in Calls : ListSubs(p)
  \/ \E p \in Calls : TxnGet(p)
  \/ \E p \in Calls : TxnCommit(p)
  \/ SubscriptionStatus(QuotaUser)
  \/ SubscriptionStatusByEmail(EmailOf(QuotaUser))

SpecEntitlement == InitEntitlement /\ [][NextEntitlement]_vars

\* ------------------------------------------------- single-session guard
InitGuard ==
  /\ now = 0
  /\ limitCfg = DefaultLimits
  /\ faults = FALSE
  /\ env = ProductionEnv
  /\ userDoc = [u \in Users |-> NoCid]
  /\ customers = [c \in CustIds |-> NoCust]
  /\ subs = [c \in CustIds |-> << >>]
  /\ quota = [u \in Users |-> NoDoc]
  /\ quota0 = quota
  /\ InitHooks
  /\ InitCalls
  /\ \A p \in Calls : pc[p] = "done"

NextGuard ==
  \/ \E b \in Browsers : Login(b)
  \/ \E b \in Browsers : Land(b)
  \/ \E b \in Browsers : Observe(b)
  \/ \E b \in Browsers : SignOut(b)

SpecGuard == InitGuard /\ [][NextGuard]_vars

\* the client sends a queued write until it is acknowledged, and a listener
\* is called with every change of its document
FairGuard ==
  /\ SpecGuard
  /\ \A b \in Browsers : WF_vars(Land(b)) /\ WF_vars(Observe(b))

\* ------------------------------------------- bearer tokens and the portal
\* production with and without FIREBASE_AUTH_EMULATOR_HOST, and development
TokenEnvs ==
  { e \in Envs : /\ ~e.devNoVerify
                 /\ e.emulator = ~e.production
                 /\ ~e.production => e.authEmulator }

PortalLists ==
  { l \in EntitlementLists : \A i \in 1..Len(l) :
      l[i].status \in {"active", "trialing", "canceled"} }

InitToken ==
  /\ now = 0
  /\ limitCfg = DefaultLimits
  /\ faults = FALSE
  /\ env \in TokenEnvs
  /\ userDoc = [u \in Users |-> NoCid]
  /\ customers = [c \in CustIds |->
       IF c = 1 THEN [exists |-> TRUE, uid |-> QuotaUser,
                      email |-> EmailOf(QuotaUser), created |-> 0]
       ELSE NoCust]
  /\ \E l \in PortalLists : subs = [c \in CustIds |-> IF c = 1 THEN l ELSE << >>]
  /\ quota = [u \in Users |-> NoDoc]
  /\ quota0 = quota
  /\ InitHooks
  /\ InitCalls
  /\ \A p \in Calls : pc[p] = "done"

NextToken ==
  \/ \E e \in {EmailOf(QuotaUser), None} : SubscriptionStatusByEmail(e)
  \/ \E u \in Users, intent \in Intents : \E e \in {EmailOf(u), None} :
       BillingPortal(u, e, intent)
  \/ \E intent \in Intents : BillingPortalTarget(QuotaUser, intent)

SpecToken == InitToken /\ [][NextToken]_vars

\* ---------------------------------------------------------------------
\* SpecWebhook: requests to pages/api/stripe/webhook.js in every deployment
\* configuration, with and without collaborator failures. Outside production
\* firebaseAdmin.js fills in both emulator hosts.
WebhookEnvs ==
  { e \in Envs : /\ e.authEmulator = ~e.production
                 /\ ~e.production => e.emulator }

\* the notifications of the subscription's life: evt_1 was sent when it was
\* created, evt_2 when it became past_due or when it was deleted
WebhookNotes ==
  { [id |-> "evt_1", type |-> "customer.subscription.created", sub |-> HookSub],
    [id |-> "evt_2", type |-> "customer.subscription.updated",
     sub |-> [HookSub EXCEPT !.status = "past_due"]],
    [id |-> "evt_2", type |-> "customer.subscription.deleted",
     sub |-> [HookSub EXCEPT !.status = "canceled"]] }

\* checkout sessions: of user u2 as customer 2 with the subscription, without
\* any reference, and a one-time payment
WebhookSessions ==
  { x \in Sessions :
      \/ x.mode = "subscription" /\ x.uid = "u2" /\ x.customer = 2
            /\ x.subscription = HookSub.id
      \/ x.mode = "subscription" /\ x.uid = None /\ x.customer = NoCid
            /\ x.subscription = None
      \/ x.mode = "payment" /\ x.uid = None /\ x.customer = NoCid
            /\ x.subscription = None }

InitWebhook ==
  /\ now = 0
  /\ limitCfg = DefaultLimits
  /\ faults \in BOOLEAN
  /\ env \in WebhookEnvs
  /\ userDoc = [u \in Users |-> IF u = "u1" THEN 1 ELSE NoCid]
  /\ customers = [c \in CustIds |->
       IF c = 1 THEN [exists |-> TRUE, uid |-> "u1", email |-> EmailOf("u1"), created |-> 0]
       ELSE IF c = 2
         THEN [exists |-> TRUE, uid |-> "u2", email |-> EmailOf("u2"), created |-> 0]
       ELSE NoCust]
  /\ subs = [c \in CustIds |-> IF c = 1 THEN << HookSub >> ELSE << >>]
  /\ quota = [u \in Users |-> NoDoc]
  /\ quota0 = quota
  /\ InitHooks
  /\ InitCalls
  /\ \A p \in Calls : pc[p] = "done"

NextWebhook ==
  \/ \E n \in WebhookNotes, c \in {1, 2} : WebhookSubscription(n.id, n.type, c, n.sub)
  \/ \E session \in WebhookSessions : WebhookCheckout("evt_1", session)
  \/ WebhookMethodNotAllowed

SpecWebhook == InitWebhook /\ [][NextWebhook]_vars

\* ======================================================================
\* Properties of the quota transaction (SpecQuota)
\* ======================================================================
Accepted == { p \in Calls : result[p] = "OK" }
Limited  == { p \in Calls : result[p] = "LIMIT_EXCEEDED" }

\* every call has finished, each either accepted or refused for the limit,
\* all of them having read day key d and limit m
RaceOver(d, m) ==
  \A p \in Calls : /\ pc[p] = "done"
                   /\ result[p] \in {"OK", "LIMIT_EXCEEDED"}
                   /\ today[p] = d
                   /\ max[p] = m

\* C1: N = NumCalls calls of one user, same day d and same limit m, stored
\* count c for that day at the start, R = m - c, N >= R: whatever the
\* interleaving, exactly R calls are accepted, the other N - R fail with
\* LIMIT_EXCEEDED, and the stored count has grown by exactly R (it is m).
C1_RaceAcceptsExactlyRemaining ==
  \A d \in 0..MaxNow, m \in 1..MaxLimit :
    LET c == usedOf(quota0[QuotaUser], d)
        R == m - c
    IN  (RaceOver(d, m) /\ c <= m /\ NumCalls >= R) =>
          /\ Cardinality(Accepted) = R
          /\ Cardinality(Limited) = NumCalls - R
          /\ usedOf(quota[QuotaUser], d) = c + R
          /\ (R > 0 => quota[QuotaUser].count = m /\ quota[QuotaUser].day = d)

\* a race that was a race: a call had to rerun its update function, one was
\* refused, and part of the allowance was already used at the start
C1_Witness ==
  \E d \in 0..MaxNow, m \in 1..MaxLimit :
    /\ RaceOver(d, m)
    /\ \E p \in Calls : attempts[p] >= 2
    /\ Limited # {}
    /\ Accepted # {}
    /\ usedOf(quota0[QuotaUser], d) >= 1

\* every call that has read its plan read day key d and limit L
SameDayAndLimit(d, L) ==
  \A p \in Calls : pc[p] \in {"txnGet", "txnCommit"} \/ result[p] \in {"OK", "LIMIT_EXCEEDED"}
                     => today[p] = d /\ max[p] = L

\* C2: no entry for day d at the start and limit L: as the calls of that day
\* complete one after the other, the stored count equals the number of calls
\* accepted so far (the k-th accepted call leaves k), never more than L are
\* accepted, a call is refused only once L are stored, and of NumCalls
\* finished calls min(NumCalls, L) were accepted and every later one refused.
C2_SequentialCalls ==
  \A d \in 0..MaxNow, L \in 1..MaxLimit :
    (usedOf(quota0[QuotaUser], d) = 0 /\ SameDayAndLimit(d, L)) =>
      /\ usedOf(quota[QuotaUser], d) = Cardinality(Accepted)
      /\ Cardinality(Accepted) <= L
      /\ (Limited # {} => usedOf(quota[QuotaUser], d) = L)
      /\ (\A p \in Calls : pc[p] = "done" /\ result[p] \in {"OK", "LIMIT_EXCEEDED"})
           => Cardinality(Accepted) = (IF NumCalls < L THEN NumCalls ELSE L)

\* L accepted calls, each in one attempt, and then a refused one
C2_Witness ==
  \E d \in 0..MaxNow, L \in 2..MaxLimit :
    /\ usedOf(quota0[QuotaUser], d) = 0
    /\ RaceOver(d, L)
    /\ \A p \in Calls : attempts[p] = 1
    /\ Cardinality(Accepted) = L
    /\ Limited # {}
    /\ quota[QuotaUser].count = L

\* call p takes a step
Steps(p) == pc'[p] # pc[p] \/ attempts'[p] # attempts[p]

Stale(doc, day) == doc.exists /\ doc.day # day /\ doc.count = doc.max

\* C3: a stored counter of another day with count = max: the update function
\* of a call made today does not refuse it, and the commit leaves day = today,
\* count = 1, and max and plan those of this call.
C3_DayBoundaryReset ==
  [][ \A p \in Calls :
        /\ (pc[p] = "txnGet" /\ Steps(p) /\ Stale(quota[uid[p]], today[p]))
             => pc'[p] = "txnCommit"
        /\ (pc[p] = "txnCommit" /\ result'[p] = "OK" /\ Stale(quota[uid[p]], today[p]))
             => quota'[uid[p]] = [exists |-> TRUE, day |-> today[p], count |-> 1,
                                  max |-> max[p], plan |-> plan[p], updatedAt |-> now]
    ]_vars

\* a full counter of day 0 replaced, on a later day, by count 1 under another limit
C3_Witness ==
  /\ Stale(quota0[QuotaUser], now)
  /\ quota[QuotaUser].day > quota0[QuotaUser].day
  /\ quota[QuotaUser].count = 1
  /\ quota[QuotaUser].max # quota0[QuotaUser].max
  /\ \E p \in Accepted : today[p] = quota[QuotaUser].day

\* C4: every stored counter has 1 <= count <= max.
C4_CountWithinMax ==
  \A u \in Users : quota[u].exists => 1 <= quota[u].count /\ quota[u].count <= quota[u].max

\* a counter written by a call, full, while a call under a smaller limit was refused
C4_Witness ==
  /\ quota[QuotaUser] # quota0[QuotaUser]
  /\ quota[QuotaUser].count = quota[QuotaUser].max
  /\ \E p \in Limited : max[p] < quota[QuotaUser].max
  /\ \E p \in Accepted : today[p] > 0

\* C5: when the count consumed on the call's day is >= its limit, the update
\* function fails with LIMIT_EXCEEDED and the stored counter is unchanged.
C5_LimitExceededWritesNothing ==
  [][ \A p \in Calls :
        /\ (pc[p] = "txnGet" /\ Steps(p) /\ usedOf(quota[uid[p]], today[p]) >= max[p])
             => result'[p] = "LIMIT_EXCEEDED" /\ quota' = quota
        /\ (result'[p] = "LIMIT_EXCEEDED" /\ result[p] # "LIMIT_EXCEEDED")
             => /\ quota' = quota
                /\ usedOf(quota[uid[p]], today[p]) >= max[p]
    ]_vars

\* a refused call, the counter still the initial one
C5_Witness ==
  /\ quota0[QuotaUser].exists
  /\ quota[QuotaUser] = quota0[QuotaUser]
  /\ \E p \in Limited : usedOf(quota[QuotaUser], today[p]) >= max[p]

\* C6: the stored day marker never goes back and, within a day, the stored
\* count never decreases.
C6_DayAndCountMonotone ==
  [][ \A u \in Users : quota[u].exists =>
        /\ quota'[u].day >= quota[u].day
        /\ (quota'[u].day = quota[u].day => quota'[u].count >= quota[u].count)
    ]_vars


\* ======================================================================
\* Properties of the whole call (Spec)
\* ======================================================================
TierNames == {StrBasic, StrPro, StrElite}

\* the price carries no configured id and names no tier
NoTierMatch(price) ==
  /\ price.id \notin {STRIPE_PRICE_BASIC, STRIPE_PRICE_PRO, STRIPE_PRICE_ELITE}
  /\ \A n \in TierNames : /\ ~includes(toLowerCase(price.lookup_key), n)
                          /\ ~includes(toLowerCase(price.nickname), n)

\* the subscription the call selects is usable and its price matches no tier
SelectsUnmatched(p) ==
  LET l == subs[stripeCustomerId[p]]
  IN  /\ find(l, now) # 0
      /\ l[find(l, now)].status \in {"active", "trialing"}
      /\ NoTierMatch(l[find(l, now)].price)

\* the ledger answered and the request was not dropped
Answered(p) == result'[p] \notin {"ERROR", "ABANDONED"}

\* C8: when the subscription selected is usable but its price matches no
\* configured id and neither its lookup key nor its nickname names a tier,
\* the plan is none and the call fails with NO_PLAN, without a transaction.
C8_UnknownTierFailsClosed ==
  [][ \A p \in Calls :
        (pc[p] = "subsList" /\ Steps(p) /\ Answered(p) /\ SelectsUnmatched(p))
          => /\ result'[p] = "NO_PLAN"
             /\ plan'[p] = None
             /\ pc'[p] = "done"
             /\ quota' = quota
    ]_vars

C8_Witness ==
  \E p \in Calls :
    /\ result[p] = "NO_PLAN"
    /\ plan[p] = None
    /\ stripeCustomerId[p] # NoCid
    /\ SelectsUnmatched(p)

\* C9: a call fails with NO_PLAN on a missing uid, on no usable subscription,
\* on an unknown tier and on a tier whose limit is <= 0, and every NO_PLAN
\* failure happens before the transaction is started and leaves every
\* counter unchanged.
C9_NoPlanBeforeTransaction ==
  [][ \A p \in Calls :
        /\ (result'[p] = "NO_PLAN" /\ result[p] # "NO_PLAN")
             => /\ quota' = quota
                /\ attempts'[p] = 0
                /\ pc[p] \in {"idle", "subsList"}
        /\ (pc[p] = "idle" /\ Steps(p) /\ uid'[p] = None) => result'[p] = "NO_PLAN"
        /\ (pc[p] = "subsList" /\ Steps(p) /\ Answered(p)
              /\ LET pl == getPlanFromStripeCustomer(subs[stripeCustomerId[p]], now)
                 IN  pl = None \/ limitCfg[pl] <= 0)
             => result'[p] = "NO_PLAN"
    ]_vars

\* a tier with limit 0 refused while the user's counter holds a consumption
C9_Witness ==
  \E p \in Calls :
    /\ result[p] = "NO_PLAN"
    /\ plan[p] \in Tiers
    /\ limitCfg[plan[p]] = 0
    /\ attempts[p] = 0
    /\ quota[uid[p]].exists

\* C10: the subscription lookup begins only with the identity resolved and
\* persisted on the user record; the transaction begins only from the plan
\* resolution, with a tier and its positive limit; and a call that ends in
\* any way other than acceptance changes no counter.
C10_StepsInOrder ==
  [][ \A p \in Calls :
        /\ (pc'[p] = "subsList" /\ pc[p] # "subsList")
             => /\ stripeCustomerId'[p] # NoCid
                /\ userDoc'[uid[p]] = stripeCustomerId'[p]
                /\ pc[p] \in {"userGet", "setUid", "setEmail", "setList", "setCreated"}
        /\ (pc'[p] = "txnGet" /\ pc[p] \notin {"txnGet", "txnCommit"})
             => /\ pc[p] = "subsList"
                /\ plan'[p] \in Tiers
                /\ max'[p] = limitCfg[plan'[p]]
                /\ max'[p] > 0
                /\ attempts[p] = 0
        /\ (result'[p] # result[p] /\ result'[p] # "OK") => quota' = quota
    ]_vars

\* a request dropped inside the transaction, before its commit: nothing stored
C10_Witness ==
  \E p \in Calls :
    /\ result[p] = "ABANDONED"
    /\ attempts[p] >= 1
    /\ ~quota[uid[p]].exists
    /\ stripeCustomerId[p] # NoCid
    /\ userDoc[uid[p]] = stripeCustomerId[p]


\* ======================================================================
\* Properties of the identity resolution (SpecSequential, Spec)
\* ======================================================================
\* resolveStripeCustomerId has returned an id to call p
Returned(p) ==
  /\ stripeCustomerId[p] # NoCid
  /\ \/ pc[p] \in {"subsList", "txnGet", "txnCommit"}
     \/ result[p] \in {"OK", "NO_PLAN", "LIMIT_EXCEEDED"}

\* C16: with calls made in sequence and no failure, the id a resolution
\* returns is on the user record when it returns, and a later resolution for
\* the same user goes from the record straight to the subscription lookup
\* with the same id: no customer search, listing or creation.
C16_SecondResolutionReadsCache ==
  [][ \A p \in Calls :
        /\ (Returned(p)' /\ ~Returned(p)) => userDoc'[uid[p]] = stripeCustomerId'[p]
        /\ \A q \in Calls \ {p} :
             (Returned(p) /\ uid[q] = uid[p] /\ pc[q] = "userGet" /\ Steps(q) /\ Answered(q))
               => /\ pc'[q] = "subsList"
                  /\ stripeCustomerId'[q] = stripeCustomerId[p]
                  /\ customers' = customers
    ]_vars

\* a first call that created the customer, a second one that met no
\* identity service and got the same id
C16_Witness ==
  \E p, q \in Calls :
    /\ p < q
    /\ uid[p] = uid[q]
    /\ result[p] = "OK" /\ result[q] = "OK"
    /\ email[p] # None /\ email[q] = None
    /\ stripeCustomerId[q] = stripeCustomerId[p]
    /\ customers[stripeCustomerId[p]].uid = uid[p]
    /\ Cardinality({ c \in CustIds : customers[c].exists }) = 1

\* C18: the ledger never holds two customers created for the same user.
C18_OneCustomerPerUser ==
  \A u \in Users :
    Cardinality({ c \in CustIds : customers[c].exists /\ customers[c].uid = u }) <= 1

\* C19: a failure of the search by uid, of the search by e-mail or of the
\* listing by e-mail does not end the call: the resolution goes on.
C19_SearchFailuresDegrade ==
  [][ \A p \in Calls :
        (pc[p] \in {"searchUid", "searchEmail", "listEmail"} /\ Steps(p))
          => result'[p] \in {None, "ABANDONED"}
    ]_vars

\* ======================================================================
\* Properties of plan resolution and subscription selection (SpecPlan)
\* ======================================================================
\* the listing call p is answered with, and its answered lookup step
Listing(p) == subs[stripeCustomerId[p]]
Lookup(p)  == pc[p] = "subsList" /\ Steps(p) /\ Answered(p)

\* the subscription the call resolves its plan from
Picked(p) == Listing(p)[find(Listing(p), now)]

TierName(t) == CASE t = "basic" -> StrBasic [] t = "pro" -> StrPro [] OTHER -> StrElite

\* C11: a price whose id is the configured id of a tier resolves to that
\* tier, whatever its nickname and its lookup key.
C11_IdMatchWins ==
  [][ \A p \in Calls : (Lookup(p) /\ find(Listing(p), now) # 0) =>
        \A t \in Tiers : Picked(p).price.id = PriceOfTier(t).id => plan'[p] = t
    ]_vars

\* the configured pro id under a nickname and a lookup key that name other tiers
C11_Witness ==
  \E p \in Calls :
    /\ result[p] = "OK"
    /\ plan[p] = "pro"
    /\ Picked(p).price.id = STRIPE_PRICE_PRO
    /\ includes(toLowerCase(Picked(p).price.nickname), StrElite)
    /\ includes(toLowerCase(Picked(p).price.lookup_key), StrBasic)

\* the one tier string s names, None when it names none or several
NamedBy(s) ==
  LET ts == { t \in Tiers : includes(toLowerCase(s), TierName(t)) }
  IN  IF Cardinality(ts) = 1 THEN CHOOSE t \in ts : TRUE ELSE None

\* C12: for a price whose id is not configured, the lookup key is matched
\* before the nickname: a lookup key that names a tier decides the plan, and
\* the nickname decides it only when the lookup key names no tier.
C12_LookupKeyBeforeNickname ==
  [][ \A p \in Calls :
        (Lookup(p) /\ find(Listing(p), now) # 0
           /\ \A t \in Tiers : Picked(p).price.id # PriceOfTier(t).id)
        => LET key == NamedBy(Picked(p).price.lookup_key)
               nick == NamedBy(Picked(p).price.nickname)
           IN  /\ key # None => plan'[p] = key
               /\ (Picked(p).price.lookup_key = << >> /\ nick # None) => plan'[p] = nick
    ]_vars

Scheduled(sub) == sub.status \in {"active", "trialing"} /\ sub.cancel_at_period_end

\* C13: when every subscription listed is active or trialing and set to
\* cancel at period end, the call finds a plan exactly when the cancellation
\* of one of them takes effect later than now.
C13_ScheduledCancellation ==
  [][ \A p \in Calls :
        (Lookup(p) /\ Listing(p) # << >>
           /\ \A i \in 1..Len(Listing(p)) : Scheduled(Listing(p)[i]))
        => /\ (plan'[p] # None) <=> \E i \in 1..Len(Listing(p)) : Listing(p)[i].cancel_at > now
           /\ (result'[p] = "NO_PLAN") <=> \A i \in 1..Len(Listing(p)) : Listing(p)[i].cancel_at <= now
    ]_vars

\* an active subscription refused after its scheduled cancellation took effect
C13_Witness ==
  \E p \in Calls :
    /\ result[p] = "NO_PLAN"
    /\ Len(Listing(p)) = 1
    /\ Listing(p)[1].status = "active"
    /\ Listing(p)[1].cancel_at_period_end
    /\ Listing(p)[1].cancel_at < now

\* C14: when no subscription listed is active or trialing, the call fails
\* with NO_PLAN and consumes nothing.
C14_StrictStatusSet ==
  [][ \A p \in Calls :
        (Lookup(p) /\ \A i \in 1..Len(Listing(p)) :
                        Listing(p)[i].status \notin {"active", "trialing"})
        => /\ result'[p] = "NO_PLAN"
           /\ pc'[p] = "done"
           /\ quota' = quota
    ]_vars

\* a past_due and an unpaid subscription, not scheduled, and the call refused
C14_Witness ==
  \E p \in Calls :
    /\ result[p] = "NO_PLAN"
    /\ attempts[p] = 0
    /\ Len(Listing(p)) = 2
    /\ Listing(p)[1].status = "past_due" /\ ~Listing(p)[1].cancel_at_period_end
    /\ Listing(p)[2].status = "unpaid" /\ ~Listing(p)[2].cancel_at_period_end

\* C15: with several usable subscriptions the plan is that of the one created
\* last, in whatever order they are listed.
C15_MostRecentUsable ==
  [][ \A p \in Calls : Lookup(p) =>
        LET usable == { i \in 1..Len(Listing(p)) : isUsable(Listing(p)[i], now) }
        IN  \A i \in usable :
              (\A j \in usable : Listing(p)[i].created >= Listing(p)[j].created)
                => plan'[p] = planFromPrice(Listing(p)[i].price)
    ]_vars

\* ======================================================================
\* Properties of the compare endpoint (SpecCompare)
\* ======================================================================
\* C20: a request whose quota check failed with NO_PLAN is answered 403 with
\* error_code NO_PLAN, one whose check failed with LIMIT_EXCEEDED 429 with
\* error_code LIMIT_EXCEEDED, whatever the message of the error; and no
\* other request is answered with either code.
C20_DeclineCodes ==
  [][ \A p \in Calls : response'[p] # response[p] =>
        /\ result[p] = "NO_PLAN" <=> response'[p].error_code = "NO_PLAN"
        /\ result[p] = "LIMIT_EXCEEDED" <=> response'[p].error_code = "LIMIT_EXCEEDED"
        /\ result[p] = "NO_PLAN" => response'[p].status = 403
        /\ result[p] = "LIMIT_EXCEEDED" => response'[p].status = 429
    ]_vars

\* an accepted request answered 200 and both declines answered
C20_Witness ==
  \E p, q, r \in Calls :
    /\ result[p] = "NO_PLAN"
    /\ response[p] = [status |-> 403, error_code |-> "NO_PLAN",
                      error |-> "No active subscription found on Stripe."]
    /\ result[q] = "LIMIT_EXCEEDED"
    /\ response[q].status = 429
    /\ response[q].error_code = "LIMIT_EXCEEDED"
    /\ result[r] = "OK"
    /\ response[r].status = 200

\* C21: a request whose quota check failed on a collaborator (neither
\* NO_PLAN nor LIMIT_EXCEEDED) is answered with a 5xx status.
C21_UpstreamFailureIs5xx ==
  [][ \A p \in Calls :
        (response'[p] # response[p] /\ result[p] = "ERROR")
          => response'[p].status \in 500..599
    ]_vars

\* the AI inference call was attempted for the request of call p
Inferred(p) == response[p].status \in {200, 502}

\* C22: in every configuration a request goes on from its arrival only with
\* the uid of a verified token, and is otherwise answered 401 (405 when it is
\* not a POST); and the inference call is attempted only for a verified
\* user whose quota check was accepted.
C22_VerifiedAndAccepted ==
  [][ \A p \in Calls :
        /\ (pc[p] = "idle" /\ Steps(p))
             => \/ pc'[p] = "userGet" /\ uid'[p] \in Users
                \/ response'[p].status \in {401, 405}
        /\ Inferred(p)' => uid'[p] \in Users /\ result'[p] = "OK"
    ]_vars

\* C23: a request whose quota check consumed a unit is not answered 400.
C23_NoRejectionAfterConsumption ==
  [][ \A p \in Calls :
        (response'[p] # response[p] /\ result[p] = "OK") => response'[p].status # 400
    ]_vars

\* ======================================================================
\* Properties of the lifecycle-notification endpoint (SpecWebhook). Every
\* step of SpecWebhook is one request, and delivery' describes it.
\* ======================================================================
\* C24: in production a POST whose payload verifies against no configured
\* secret is not accepted and writes nothing: the notification log, the
\* mirror, the orphan bucket and the cached identities stay as they are,
\* whatever the other settings.
C24_ProductionRejectsUnverified ==
  [][ (env.production /\ delivery'.status # 405 /\ ~delivery'.verified)
        => /\ ~delivery'.accepted
           /\ stripeEvents' = stripeEvents
           /\ mirror' = mirror
           /\ stripeOrphans' = stripeOrphans
           /\ userDoc' = userDoc
           /\ lastCheckout' = lastCheckout ]_vars

\* C25: a POST whose payload was parsed is answered 200, also when the log
\* write, the mirror or orphan write or the subscription retrieval failed.
C25_ParsedPostAnswers200 ==
  delivery.accepted => delivery.status = 200

\* a parsed notification whose subscription write failed, answered 200
C25_Witness ==
  /\ delivery.accepted
  /\ delivery.type \in SubEventTypes
  /\ delivery.stage = "write"
  /\ delivery.status = 200

\* the mirror fields a subscription object carries
Payload(sub) ==
  [subscriptionId |-> sub.id, priceId |-> sub.price.id,
   activePlan |-> PLAN_BY_PRICE(sub.price.id), subscriptionStatus |-> sub.status,
   currentPeriodEnd |-> tsOrNull(sub.current_period_end),
   cancelAtPeriodEnd |-> sub.cancel_at_period_end]

\* the step processed a subscription created/updated/deleted notification
\* to its end against the real store
Processed ==
  delivery'.type \in SubEventTypes /\ delivery'.applied /\ ~env.emulator

C28_LoggedNotificationNotReapplied ==
  [][ ( /\ ~faults
        /\ delivery'.accepted
        /\ delivery'.type \in SubEventTypes
        /\ stripeEvents[delivery'.id].exists
        /\ stripeEvents[delivery'.id].type = delivery'.type
        /\ stripeEvents[delivery'.id].stripeCustomerId = delivery'.customer )
        => (mirror' = mirror /\ stripeOrphans' = stripeOrphans) ]_vars

\* ======================================================================
\* Properties of the quota decision next to the mirror (SpecMirror)
\* ======================================================================
\* what the ledger, the stored counter and the day decide for the user
ExpectedPlan == getPlanFromStripeCustomer(subs[userDoc[QuotaUser]], now)
ExpectedMax  == limitForPlan(ExpectedPlan)
ExpectedUsed == usedOf(quota0[QuotaUser], todayKey(now))
ExpectedResult ==
  IF ExpectedPlan = None \/ ExpectedMax <= 0 THEN "NO_PLAN"
  ELSE IF ExpectedUsed >= ExpectedMax THEN "LIMIT_EXCEEDED" ELSE "OK"
ExpectedDoc ==
  IF ExpectedResult = "OK"
    THEN [exists |-> TRUE, day |-> todayKey(now), count |-> ExpectedUsed + 1,
          max |-> ExpectedMax, plan |-> ExpectedPlan, updatedAt |-> now]
    ELSE quota0[QuotaUser]

\* C29: the outcome of a call and the counter it leaves are the ones the
\* user's cached identity, the ledger, the stored counter and the server's
\* day decide, whatever the user's mirror fields and the client's counter
\* and day are or become during the call.
C29_DecisionIgnoresMirrorAndClient ==
  \A p \in Calls :
    (pc[p] = "done" /\ result[p] # None)
      => /\ result[p] = ExpectedResult
         /\ quota[QuotaUser] = ExpectedDoc

\* an accepted call of a user whose mirror says canceled and whose browser
\* says nothing is left
C29_Witness ==
  \E p \in Calls :
    /\ pc[p] = "done"
    /\ result[p] = "OK"
    /\ quota[QuotaUser].count = 2
    /\ mirror[QuotaUser].subscriptionStatus = "canceled"
    /\ client.remaining = 0

\* ======================================================================
\* Properties of the billing portal next to the quota path (SpecPortal)
\* ======================================================================
\* C30: the customer a user's portal session is created for is the one the
\* quota path resolved and cached for that user: with a cached
\* stripeCustomerId the session is for that id, and the two never act on
\* different customers.
C30_PortalUsesCachedIdentity ==
  \A u \in Users :
    (portal[u] # NoCid /\ userDoc[u] # NoCid) => portal[u] = userDoc[u]

\* ======================================================================
\* Properties of the handlers (SpecHandlers)
\* ======================================================================
\* C7: a counter changes only in the commit of an accepted call's
\* transaction; a lifecycle notification, an entitlement-status request, a
\* billing-portal request and a checkout request (every step that is not a
\* step of a call) leave every user's counter unchanged.
C7_OnlyTransactionWritesCounter ==
  [][ /\ (quota' # quota) =>
            \E p \in Calls : /\ pc[p] = "txnCommit"
                             /\ pc'[p] = "done"
                             /\ result'[p] = "OK"
                             /\ \A u \in Users : u # uid[p] => quota'[u] = quota[u]
      /\ (\A p \in Calls : pc'[p] = pc[p] /\ attempts'[p] = attempts[p]) => quota' = quota
    ]_vars

\* C17: once a user record holds a customer id, no step changes it to
\* another value.
C17_CachedIdentitySticky ==
  [][ \A u \in Users : userDoc[u] # NoCid => userDoc'[u] = userDoc[u] ]_vars

\* a counter in place while notifications were logged, mirrored and
\* orphaned, a checkout was mapped and a customer was created
C7_Witness ==
  /\ quota[QuotaUser].exists
  /\ mirror[QuotaUser] # NoMirror
  /\ stripeEvents["evt_1"].exists
  /\ \E i \in SubIds : stripeOrphans[i].exists
  /\ \E u \in Users : lastCheckout[u] # None
  /\ \E c \in CustIds : customers[c].exists /\ customers[c].uid # QuotaUser

\* ------------------------------------------------ entitlement and portal
StatusEndpoints == {"subscription-status", "subscription/status"}

PortalEndpoints == {"billing/portal", "billing/portal target"}

\* C31: an entitlement-status answer that reports a subscription reports the
\* customer's most recently created one, with its raw ledger status, and
\* active exactly when that status is trialing, active, past_due or unpaid.
C31_StatusReportsLatestLenient ==
  (reply.endpoint \in StatusEndpoints /\ reply.code = 200 /\ reply.customer # NoCid) =>
    LET l == subs[reply.customer]
    IN  \E i \in 1..Len(l) :
          /\ \A j \in 1..Len(l) : l[j].created <= l[i].created
          /\ reply.subscription = l[i].id
          /\ reply.status = l[i].status
          /\ reply.active <=> l[i].status \in {"trialing", "active", "past_due", "unpaid"}

\* the customer's older subscription is active and listed first, the newer
\* one is past_due, and the endpoint answered past_due, active
C31_Witness ==
  /\ reply.endpoint = "subscription-status"
  /\ reply.code = 200
  /\ Len(subs[1]) = 2
  /\ subs[1][1].status = "active"
  /\ subs[1][1].created < subs[1][2].created
  /\ reply.subscription = subs[1][2].id
  /\ reply.status = "past_due"
  /\ reply.active

\* the subscriptions a portal intent can target: the live ones when there
\* are any, else all
Candidates(l) ==
  IF \E i \in 1..Len(l) : l[i].status \in {"trialing", "active", "past_due", "unpaid"}
    THEN { i \in 1..Len(l) : l[i].status \in {"trialing", "active", "past_due", "unpaid"} }
    ELSE 1..Len(l)

\* C32: a portal session scoped to a subscription is scoped to the most
\* recently created of the customer's candidate subscriptions.
C32_PortalScopedToLatest ==
  (reply.endpoint \in PortalEndpoints /\ reply.code = 200 /\ reply.subscription # None) =>
    LET l == subs[reply.customer]
    IN  \E i \in Candidates(l) :
          /\ l[i].id = reply.subscription
          /\ \A j \in Candidates(l) : l[j].created <= l[i].created

\* C35: when a quota call of the user resolved a plan and an
\* entitlement-status endpoint answered for the same user on the same
\* ledger state, the answer is active and for the same customer.
C35_EnforcementImpliesDisplayActive ==
  \A p \in Calls :
    ( /\ pc[p] = "done" /\ uid[p] = QuotaUser /\ plan[p] # None
      /\ reply.endpoint \in StatusEndpoints /\ reply.code = 200 ) =>
        reply.active /\ reply.customer = stripeCustomerId[p]

\* C37: in production no answer to a token that failed verification comes
\* from a ledger lookup, a customer creation or a portal session.
C37_ProductionIgnoresUnverified ==
  ( /\ env.production
    /\ reply.endpoint \in {"subscription-status", "billing/portal"}
    /\ ~reply.verified ) =>
      reply.code = 500 /\ reply.customer = NoCid /\ reply.status = None

\* ------------------------------------------------- plan change in a day
\* the consumptions stored for the call's day, whatever plan stored them
StoredToday(p) ==
  LET d == quota[uid[p]] IN IF d.exists /\ d.day = today[p] THEN d.count ELSE 0

ReadsOf(u) ==
  LET own == searchByUid(u) \cup searchByEmail(EmailOf(u))
               \cup { c \in CustIds : c = userDoc[u] }
  IN  << quota[u], userDoc[u], searchByUid(u), searchByEmail(EmailOf(u)),
         [c \in own |-> << customers[c], subs[c] >>] >>

\* C34: a step of a quota call of one user, accepted or declined, leaves
\* every other user's counter and cached identity, and everything a call of
\* that other user reads, unchanged.
C34_QuotaIsolatedPerUser ==
  [][ \A p \in Calls : Steps(p) =>
        \A u \in Users : u # uid'[p] => ReadsOf(u)' = ReadsOf(u) ]_vars

\* calls of both users were accepted, each on its own customer and counter
C34_Witness ==
  /\ \E p \in Calls, q \in Calls :
       /\ uid[p] = "u1" /\ uid[q] = "u2"
       /\ pc[p] = "done" /\ pc[q] = "done"
       /\ result[p] = "OK" /\ result[q] = "OK"
  /\ quota["u1"].exists /\ quota["u2"].exists
  /\ userDoc["u1"] # NoCid /\ userDoc["u2"] # NoCid /\ userDoc["u1"] # userDoc["u2"]

\* ------------------------------------------------- single-session guard
SignedIn == { b \in Browsers : browser[b].signedIn }

\* no two browsers that signed in hold the same session id
DistinctIds ==
  \A b \in Browsers, c \in Browsers :
    (b # c /\ browser[b].id = browser[c].id) => browser[b].id = None

====
